---- MODULE Spec2Model ----
(***************************************************************************)
(* The DBAPI cursor / connection state machine of sqlalchemy-cloudflare-d1 *)
(* (src/src/sqlalchemy_cloudflare_d1/connection.py), over its REST         *)
(* transport (Cursor, AsyncCursor) and its Worker-binding transport        *)
(* (WorkerCursor, SyncWorkerCursor), and the adapted cursor of the async    *)
(* dialect (dialect_async.py, AsyncAdapt_d1_cursor), which drives an       *)
(* AsyncCursor of its own for every statement.                             *)
(*                                                                         *)
(* Encoding of Python values:                                              *)
(*   - an Optional value is None (the empty tuple) or Some(x) = <<x>>,     *)
(*     so that None and the empty list stay different values;              *)
(*   - a str is the sequence of its characters;                            *)
(*   - a dict is the sequence of its <<key, value>> pairs in insertion     *)
(*     order, keys pairwise different;                                     *)
(*   - a cell value is a string, PyNone being Python's None and JsNull     *)
(*     the host runtime's null marker.                                     *)
(*                                                                         *)
(* A client drives one cursor of one connection, and in SpecConn two.  The  *)
(* specifications differ in the calls the client makes: Spec runs          *)
(* statements of every class over every result shape and fetches;          *)
(* SpecCounts runs execute and executemany over every meta; SpecCalls      *)
(* makes every call, closings included, over a few results; SpecParams     *)
(* runs execute with every kind of parameters argument; SpecErrors runs    *)
(* execute and executemany of every cursor, the adapted one included, over *)
(* every failure of the transport; SpecConn adds cursor, commit, rollback  *)
(* and close of the connection and a second cursor; SpecFetch runs every   *)
(* way of fetching, on the adapted cursor too, whose inner AsyncCursor is  *)
(* kept as the other cursor.  SpecTypes applies the type processors of the *)
(* dialect (dialect.py) and its DDL compiler (compiler.py) to every value  *)
(* and table: there a call is kept in last with what it was given.         *)
(* SpecTasks runs execute over responses with and without the id of an    *)
(* inserted row and, on AsyncCursor and AsyncConnection, splits execute    *)
(* and close at their await: the suspended coroutines are kept in tasks    *)
(* and resume in any order.                                                *)
(*                                                                         *)
(* Where the outcome of a call is used more than once it is bound by       *)
(* quantifying over the set that holds it, which evaluates it once.        *)
(***************************************************************************)
EXTENDS Integers, Sequences, FiniteSets, TLC

\* ------------------------------------------------------------ bounds
\* Most rows one provider response carries.
MaxRows == 2
\* Most parameter sets one executemany call is given.
MaxSets == 2
\* Most bytes of a value of a binary column.
MaxBytes == 3
\* Most columns of a table.
MaxColumns == 3
\* Most coroutines suspended at an await at one time.
MaxTasks == 2

\* ------------------------------------------------------------ Python values
None == <<>>
Some(x) == <<x>>
IsNone(o) == o = <<>>
Get(o) == o[1]

PyNone == "None"
JsNull == "JsNull"
\* the int 0, the one falsy cell value besides None
PyZero == "0"

\* ------------------------------------------------------------ str
LowerChars == <<"a", "b", "c", "d", "e", "f", "g", "h", "i", "j", "k", "l", "m", "n", "o", "p", "q", "r", "s", "t", "u", "v", "w", "x", "y", "z">>
UpperChars == <<"A", "B", "C", "D", "E", "F", "G", "H", "I", "J", "K", "L", "M", "N", "O", "P", "Q", "R", "S", "T", "U", "V", "W", "X", "Y", "Z">>
Whitespace == {" ", "\n", "\t", "\r"}

UpperChar(c) ==
  IF \E i \in 1..Len(LowerChars) : LowerChars[i] = c
  THEN UpperChars[CHOOSE i \in 1..Len(LowerChars) : LowerChars[i] = c]
  ELSE c

\* str.upper()
StrUpper(s) == [i \in 1..Len(s) |-> UpperChar(s[i])]

\* str.strip()
StrStrip(s) ==
  LET keep == {i \in 1..Len(s) : s[i] \notin Whitespace}
  IN  IF keep = {} THEN <<>>
      ELSE LET lo == CHOOSE i \in keep : \A j \in keep : i <= j
               hi == CHOOSE i \in keep : \A j \in keep : j <= i
           IN  SubSeq(s, lo, hi)

\* str.startswith(prefix)
StartsWith(s, prefix) ==
  /\ Len(prefix) <= Len(s)
  /\ SubSeq(s, 1, Len(prefix)) = prefix

\* sub in s
Contains(s, sub) ==
  \E i \in 1..(Len(s) - Len(sub) + 1) : SubSeq(s, i, i + Len(sub) - 1) = sub

kwSELECT == <<"S", "E", "L", "E", "C", "T">>
kwPRAGMA == <<"P", "R", "A", "G", "M", "A">>
kwWITH == <<"W", "I", "T", "H">>
kwRETURNING == <<"R", "E", "T", "U", "R", "N", "I", "N", "G">>

\* ------------------------------------------------------------ dict
DictKeys(d) == [i \in 1..Len(d) |-> d[i][1]]
DictValues(d) == [i \in 1..Len(d) |-> d[i][2]]
DictHas(d, k) == \E i \in 1..Len(d) : d[i][1] = k

\* d.get(k, default)
DictGetDefault(d, k, default) ==
  IF DictHas(d, k) THEN d[CHOOSE i \in 1..Len(d) : d[i][1] = k][2] ELSE default

\* A variant of d.get(k) that gives the key for the value.
DictGetKey(d, k) == k

\* d.get(k)
DictGet(d, k) == DictGetDefault(d, k, PyNone)

\* d[k] = v: an existing key keeps its place and takes the new value
DictSet(d, k, v) ==
  IF DictHas(d, k)
  THEN [i \in 1..Len(d) |-> IF d[i][1] = k THEN <<k, v>> ELSE d[i]]
  ELSE Append(d, <<k, v>>)

RECURSIVE DictZipFrom(_, _, _, _)
DictZipFrom(keys, vals, i, acc) ==
  IF i > Len(keys) \/ i > Len(vals) THEN acc
  ELSE DictZipFrom(keys, vals, i + 1, DictSet(acc, keys[i], vals[i]))

\* dict(zip(keys, vals))
DictZip(keys, vals) == DictZipFrom(keys, vals, 1, <<>>)

\* ------------------------------------------------------------ helper functions

\* A parameters argument is None (t = "none"), a list or tuple of values v
\* (t = "list"), a dict of keys k and values v in insertion order (t = "dict")
\* or the single value v[1] (t = "scalar").
\* list(parameters.values())
ParamValues(parameters) == parameters.v

\* if parameters:
ParamsTruthy(parameters) ==
  CASE parameters.t = "none" -> FALSE
    [] parameters.t = "list" -> parameters.v # <<>>
    [] parameters.t = "dict" -> parameters.v # <<>>
    [] OTHER -> parameters.v[1] \notin {PyNone, PyZero}

\* _prepare_parameters
PrepareParameters(parameters) ==
  IF ~ParamsTruthy(parameters) THEN None
  ELSE CASE parameters.t = "list" -> Some(parameters.v)
         [] parameters.t = "dict" -> Some(ParamValues(parameters))
         [] OTHER -> Some(parameters.v)

\* One entry of cursor.description: the name and six None fields.
Descriptor(name) == <<name, PyNone, PyNone, PyNone, PyNone, PyNone, PyNone>>

\* ------------------------------------------------------------ statements
SqlSelect == <<"S", "E", "L", "E", "C", "T", " ", "a">>
SqlSelectLower == <<" ", "s", "e", "l", "e", "c", "t", " ", "a", "\n">>
SqlPragma == <<"P", "R", "A", "G", "M", "A", " ", "t">>
SqlWith == <<"W", "I", "T", "H", " ", "c">>
SqlInsert == <<"I", "N", "S", "E", "R", "T", " ", "t">>
SqlInsertReturning == <<"i", "n", "s", "e", "r", "t", " ", "t", " ", "r", "e", "t", "u", "r", "n", "i", "n", "g", " ", "a">>
SqlDropTable == <<"D", "R", "O", "P", " ", "T", "A", "B", "L", "E", " ", "t">>
Statements ==
  {SqlSelect, SqlSelectLower, SqlPragma, SqlWith, SqlInsert, SqlInsertReturning, SqlDropTable}

\* A variant of is_select_like without the RETURNING test.
IsSelectLikeNoReturning(operation) ==
  LET operation_upper == StrUpper(StrStrip(operation))
  IN  \/ StartsWith(operation_upper, kwSELECT)
      \/ StartsWith(operation_upper, kwPRAGMA)
      \/ StartsWith(operation_upper, kwWITH)

\* is_select_like of _build_description
IsSelectLike(operation) ==
  LET operation_upper == StrUpper(StrStrip(operation))
  IN  \/ StartsWith(operation_upper, kwSELECT)
      \/ StartsWith(operation_upper, kwPRAGMA)
      \/ StartsWith(operation_upper, kwWITH)
      \/ Contains(operation_upper, kwRETURNING)

\* IsSelectLike, worked out once for each statement.
SelectLike == [s \in Statements |-> IsSelectLike(s)]

\* A variant of _build_description that reads the names off the first row only.
BuildDescriptionFromRows(operation, columns, result_data) ==
  IF ~SelectLike[operation] THEN None
  ELSE IF result_data # <<>>
       THEN LET keys == DictKeys(result_data[1])
            IN  Some([i \in 1..Len(keys) |-> Descriptor(keys[i])])
       ELSE Some(<<>>)

\* _build_description(operation, columns, result_data)
BuildDescription(operation, columns, result_data) ==
  IF ~SelectLike[operation] THEN None
  ELSE IF columns # <<>>
       THEN Some([i \in 1..Len(columns) |-> Descriptor(columns[i])])
       ELSE IF result_data # <<>>
            THEN LET keys == DictKeys(result_data[1])
                 IN  Some([i \in 1..Len(keys) |-> Descriptor(keys[i])])
            ELSE Some(<<>>)

\* _convert_js_null
ConvertJsNull(value) == IF value = JsNull THEN PyNone ELSE value

\* _parse_all_result: all_result is [results |-> rows as dicts, meta |-> dict]
ParseAllResult(all_result) ==
  LET raw_results == all_result.results
      columns == IF raw_results # <<>> THEN DictKeys(raw_results[1]) ELSE <<>>
      results == [r \in 1..Len(raw_results) |->
                    [i \in 1..Len(raw_results[r]) |->
                       <<raw_results[r][i][1], ConvertJsNull(raw_results[r][i][2])>>]]
  IN  [results |-> results, columns |-> columns, meta |-> all_result.meta]

\* A variant of the text gate that tests the text as written.
StartsWithSelectAsWritten(query) == StartsWith(query, kwSELECT)

\* query.strip().upper().startswith("SELECT"), the text gate of the
\* column-recovery call
StartsWithSelect(query) == StartsWith(StrUpper(StrStrip(query)), kwSELECT)

\* StartsWithSelect, worked out once for each statement.
SelectPrefixed == [s \in Statements |-> StartsWithSelect(s)]

\* ------------------------------------------------------------ inputs
\* Parameter arguments: absent, empty, a list, a dict, a single value.
NoParams == [t |-> "none", k |-> <<>>, v |-> <<>>]
ParamSets ==
  { NoParams,
    [t |-> "list", k |-> <<>>, v |-> <<>>],
    [t |-> "list", k |-> <<>>, v |-> <<PyNone>>],
    [t |-> "list", k |-> <<>>, v |-> <<"p1", PyNone>>],
    [t |-> "dict", k |-> <<"k1", "k2">>, v |-> <<PyNone, "p1">>],
    [t |-> "scalar", k |-> <<>>, v |-> <<"p1">>],
    [t |-> "scalar", k |-> <<>>, v |-> <<PyZero>>] }

\* The parameter sets an executemany call is given.
ManyParamSets ==
  { [t |-> "list", k |-> <<>>, v |-> <<>>], [t |-> "list", k |-> <<>>, v |-> <<"p1", PyNone>>] }
ParamSeqs == UNION { [1..k -> ManyParamSets] : k \in 0..MaxSets }

\* Column lists a provider reports: none, one, two, a repeated name.
ColumnLists == { <<>>, <<"a">>, <<"b", "a">>, <<"a", "a">> }
DistinctColumnLists == { c \in ColumnLists : \A i, j \in 1..Len(c) : c[i] = c[j] => i = j }

\* Cell values.  Row k of a result holds Values[k], Values[k + 1], ... so that
\* the cells of a row differ from each other, and the rows of a result too.
Values == <<"v1", "v2", "v3", "v4", "v5">>
ResultRow(k, width) == [i \in 1..width |-> Values[((k + i - 2) % Len(Values)) + 1]]
ResultRows(n, width) == [k \in 1..n |-> ResultRow(k, width)]

\* The positional rows a provider reports under a column list: up to MaxRows
\* rows; a result with no column has no row.
RowSeqs(columns) ==
  IF columns = <<>> THEN { <<>> }
  ELSE { ResultRows(n, Len(columns)) : n \in 0..MaxRows }

\* Response meta: a changes count, present or not.
Metas == { <<>>, << <<"changes", -1>> >>, << <<"changes", 1>> >> }

\* The statements and the rows of the runs that vary the parameters, the meta
\* and the failures.
PlainStatements == {SqlSelect, SqlInsert}
PlainRowSeqs == RowSeqs(<<"a">>)
ShortRowSeqs == { r \in PlainRowSeqs : Len(r) <= 1 }

\* What the HTTP client gives for one POST to /raw: a request error, an error
\* status, a body that response.json() cannot parse, or a JSON envelope
\* {success, errors, result: [{results: {columns, rows}, meta}]}.
HttpJson(c, r, m) ==
  [t |-> "json", success |-> TRUE, errors |-> <<>>,
   result |-> << [columns |-> c, rows |-> r, meta |-> m] >>]
HttpNoResult == [t |-> "json", success |-> TRUE, errors |-> <<>>, result |-> <<>>]
HttpApiError == [t |-> "json", success |-> FALSE, errors |-> <<"no such table">>, result |-> <<>>]
HttpFailures ==
  { [t |-> "request_error", success |-> FALSE, errors |-> <<>>, result |-> <<>>],
    [t |-> "status_error", success |-> FALSE, errors |-> <<>>, result |-> <<>>],
    [t |-> "json", success |-> FALSE, errors |-> <<>>, result |-> <<>>],
    [t |-> "not_json", success |-> FALSE, errors |-> <<>>, result |-> <<>>],
    HttpApiError }

\* What raw({columnNames: true}) gives for a statement whose all() has no row:
\* an exception, an empty array, the header row of column names, or the header
\* and a row the statement returns by then.
RawRaises == [raises |-> TRUE, rows |-> <<>>]
NoRaw == [raises |-> FALSE, rows |-> <<>>]
PlainRaw == [raises |-> FALSE, rows |-> << <<"a">> >>]
RawOutcomes ==
  { RawRaises, NoRaw, [raises |-> FALSE, rows |-> << <<"a">> >> \o ResultRows(1, 1)] }
  \cup { [raises |-> FALSE, rows |-> <<c>>] : c \in ColumnLists }

\* What the D1 binding gives for one statement: all() raises, or resolves to
\* {results: [{name: value}], meta}; rows are name-keyed objects, so their
\* names are pairwise different, and a result with no row names no column.
\* raw is what the raw() call gives if it is made.
HostAll(c, r, m, w) == [all_raises |-> FALSE, columns |-> c, rows |-> r, meta |-> m, raw |-> w]
HostRows(r, m) == HostAll(<<"a">>, r, m, NoRaw)
HostEmpty(m, w) == HostAll(<<>>, <<>>, m, w)
HostFailure == [all_raises |-> TRUE, columns |-> <<>>, rows |-> <<>>, meta |-> <<>>, raw |-> NoRaw]
HostPlain(r, m) == IF r = <<>> THEN HostEmpty(m, PlainRaw) ELSE HostRows(r, m)

\* One call of execute: the statement, the parameters, what the provider gives.
Input(s, p, o) == [operation |-> s, parameters |-> p, outcome |-> o]

\* Every statement over every result shape, without parameters.
RestShapes ==
  UNION { { Input(s, NoParams, HttpJson(c, r, <<>>)) : s \in Statements, r \in RowSeqs(c) }
          : c \in ColumnLists }
  \cup { Input(s, NoParams, HttpNoResult) : s \in Statements }
HostShapes ==
  UNION { { Input(s, NoParams, HostAll(c, r, <<>>, NoRaw))
            : s \in Statements, r \in {rr \in RowSeqs(c) : rr # <<>>} }
          : c \in DistinctColumnLists }
  \cup { Input(s, NoParams, HostEmpty(<<>>, w)) : s \in Statements, w \in RawOutcomes }

\* The plain statements over every meta and number of rows without
\* parameters, over every meta or no row with a parameter set, and failing.
RestCounts ==
  { Input(s, NoParams, HttpJson(<<"a">>, r, m)) : s \in PlainStatements, r \in PlainRowSeqs, m \in Metas }
  \cup { Input(s, p, HttpJson(<<"a">>, ResultRows(1, 1), m))
         : s \in PlainStatements, p \in ManyParamSets, m \in Metas }
  \cup { Input(s, p, HttpJson(<<"a">>, <<>>, <<>>)) : s \in PlainStatements, p \in ManyParamSets }
  \cup { Input(s, p, HttpApiError) : s \in PlainStatements, p \in {NoParams} \cup ManyParamSets }
HostCounts ==
  { Input(s, NoParams, HostPlain(r, m)) : s \in PlainStatements, r \in PlainRowSeqs, m \in Metas }
  \cup { Input(s, p, HostPlain(ResultRows(1, 1), m))
         : s \in PlainStatements, p \in ManyParamSets, m \in Metas }
  \cup { Input(s, p, HostPlain(<<>>, <<>>)) : s \in PlainStatements, p \in ManyParamSets }
  \cup { Input(s, p, HostFailure) : s \in PlainStatements, p \in {NoParams} \cup ManyParamSets }

\* One statement over a few results, with and without parameter sets, and
\* failing.
RestFew ==
  { Input(SqlSelect, NoParams, HttpJson(<<"a">>, r, <<>>)) : r \in PlainRowSeqs }
  \cup { Input(SqlSelect, p, HttpJson(<<"a">>, ResultRows(1, 1), <<>>)) : p \in ManyParamSets }
  \cup { Input(SqlSelect, p, HttpApiError) : p \in {NoParams} \cup ManyParamSets }
HostFew ==
  { Input(SqlSelect, NoParams, HostPlain(r, <<>>)) : r \in PlainRowSeqs }
  \cup { Input(SqlSelect, p, HostRows(ResultRows(1, 1), <<>>)) : p \in ManyParamSets }
  \cup { Input(SqlSelect, p, HostFailure) : p \in {NoParams} \cup ManyParamSets }

\* The plain statements with every parameters argument.
RestParams ==
  { Input(s, p, HttpJson(<<"a">>, r, <<>>)) : s \in PlainStatements, p \in ParamSets, r \in ShortRowSeqs }
  \cup { Input(s, p, h) : s \in PlainStatements, p \in ParamSets, h \in HttpFailures }
HostParams ==
  { Input(s, p, HostRows(ResultRows(1, 1), <<>>)) : s \in PlainStatements, p \in ParamSets }
  \cup { Input(s, p, HostEmpty(<<>>, w)) : s \in PlainStatements, p \in ParamSets, w \in {PlainRaw, RawRaises} }
  \cup { Input(s, p, HostFailure) : s \in PlainStatements, p \in ParamSets }

\* The all() result of a host outcome.
AllResult(host) ==
  [results |-> [i \in 1..Len(host.rows) |-> DictZip(host.columns, host.rows[i])],
   meta |-> host.meta]

CursorKinds == {"Cursor", "AsyncCursor", "WorkerCursor", "SyncWorkerCursor"}
RestKinds == {"Cursor", "AsyncCursor"}
\* ------------------------------------------------------------ state
VARIABLES
  kind,      \* the cursor class in use, with its connection class
  pyodide,   \* whether pyodide.ffi.run_sync can be imported
  conn,      \* the connection: [closed, client_closed (client.close() calls)]
  cursor,    \* the cursor's fields (BaseCursorMixin._init_cursor_state)
  em,        \* the executemany call in progress, or None
  last,      \* the last call on the cursor: its parameters, how it ended, what
             \* it returned, the transport calls it made and, if it failed at
             \* the provider, what the provider gave
  provider,  \* what the provider reported to the last successful execute
  fetched,   \* the rows handed out since then: <<index in the buffer, tuple>>
  peer,      \* the cursor of the same connection the client made before this
             \* one, with its provider and fetched, or None
  tasks      \* the coroutines suspended at an await of the transport, in the
             \* order they were started: [op, input, calls]

vars == <<kind, pyodide, conn, cursor, em, last, provider, fetched, peer, tasks>>

\* BaseCursorMixin._init_cursor_state
InitCursorState ==
  [result_data |-> None, description |-> None, rowcount |-> -1, arraysize |-> 1,
   closed |-> FALSE, position |-> 0, last_result_meta |-> <<>>]

NoCall == [op |-> "", parameters |-> NoParams, seq |-> <<>>, size |-> None,
           out |-> "", msg |-> <<>>, ret |-> <<>>, calls |-> <<>>, runs |-> <<>>,
           given |-> None]

Init ==
  /\ kind \in CursorKinds
  /\ pyodide \in BOOLEAN
  /\ (kind # "SyncWorkerCursor" => pyodide)
  /\ conn = [closed |-> FALSE, client_closed |-> 0]
  /\ cursor = InitCursorState
  /\ em = None
  /\ last = NoCall
  /\ provider = None
  /\ fetched = <<>>
  /\ peer = None
  /\ tasks = <<>>

\* ------------------------------------------------------------ transports
Call(f, a) == [f |-> f, a |-> a]
Raised(exc, msg, calls) == [exc |-> exc, msg |-> msg, result |-> <<>>, calls |-> calls]
Returned(result, calls) == [exc |-> "", msg |-> <<>>, result |-> <<result>>, calls |-> calls]

\* Connection._execute_query and AsyncConnection._execute_query (the same
\* text): one POST to /raw, then the envelope is unpacked.
RestExecuteQuery(c, query, parameters, http) ==
  IF c.closed THEN Raised("InterfaceError", <<"Connection is closed">>, <<>>)
  ELSE
    LET params == PrepareParameters(parameters)
        post == <<Call("POST", <<query, params>>)>>
    IN  CASE http.t = "request_error" ->
               Raised("OperationalError", <<"HTTP request failed: ", "transport">>, post)
          [] http.t = "status_error" ->
               Raised("OperationalError", <<"HTTP error ", "status">>, post)
          [] http.t = "not_json" ->
               Raised("ValueError", <<"not json">>, post)
          [] OTHER ->
               IF ~http.success
               THEN IF http.errors # <<>>
                    THEN Raised("OperationalError", <<"D1 API error: ", http.errors[1]>>, post)
                    ELSE Raised("OperationalError", <<"D1 API request failed">>, post)
               ELSE IF http.result # <<>>
                    THEN LET query_result == http.result[1]
                             columns == query_result.columns
                             rows == query_result.rows
                         IN  Returned([results |-> [i \in 1..Len(rows) |-> DictZip(columns, rows[i])],
                                       columns |-> columns,
                                       meta |-> query_result.meta], post)
                    ELSE Returned([results |-> <<>>, columns |-> <<>>, meta |-> <<>>], post)

\* The positional arguments of the parameters given to bind.
BindValues(parameters) ==
  CASE parameters.t = "list" -> parameters.v
    [] parameters.t = "dict" -> ParamValues(parameters)
    [] OTHER -> parameters.v

\* WorkerConnection._execute_query_async: prepare, bind(*parameters)
WorkerPrepareBind(query, parameters) ==
  <<Call("prepare", <<query>>)>>
    \o (IF ParamsTruthy(parameters) THEN <<Call("bind", BindValues(parameters))>> ELSE <<>>)

\* convert_param of SyncWorkerConnection._execute_query
ConvertParam(val) == IF val = PyNone THEN JsNull ELSE val

\* SyncWorkerConnection._execute_query: prepare, bind(*converted)
SyncPrepareBind(query, parameters) ==
  <<Call("prepare", <<query>>)>>
    \o (IF ParamsTruthy(parameters)
        THEN LET vals == BindValues(parameters)
             IN  <<Call("bind", [i \in 1..Len(vals) |-> ConvertParam(vals[i])])>>
        ELSE <<>>)

\* A variant of the gate that opens for every row-returning statement.
NeedsRawFallbackRowReturning(parsed, query) ==
  /\ parsed.columns = <<>>
  /\ parsed.results = <<>>
  /\ SelectLike[query]

\* The gate of the column-recovery call.
NeedsRawFallback(parsed, query) ==
  /\ parsed.columns = <<>>
  /\ parsed.results = <<>>
  /\ SelectPrefixed[query]

\* list(first_row) if first_row else [], of a non-empty raw result
RawColumns(raw_result) == raw_result[1]

\* A variant of WorkerConnection._execute_query_async without the inner
\* handler: an exception of the raw call reaches the outer one.
WorkerExecuteQueryAsyncRawRaises(c, query, parameters, host) ==
  IF c.closed THEN Raised("InterfaceError", <<"Connection is closed">>, <<>>)
  ELSE
    LET first == WorkerPrepareBind(query, parameters) \o <<Call("all", <<>>)>>
    IN  IF host.all_raises
        THEN Raised("OperationalError", <<"D1 Worker query failed: ", "binding">>, first)
        ELSE
          LET parsed == ParseAllResult(AllResult(host))
          IN  IF NeedsRawFallback(parsed, query)
              THEN LET second == WorkerPrepareBind(query, parameters)
                                   \o <<Call("raw", <<"columnNames">>)>>
                   IN  IF host.raw.raises
                       THEN Raised("OperationalError", <<"D1 Worker query failed: ", "raw">>,
                                   first \o second)
                       ELSE Returned([parsed EXCEPT
                                        !.columns = IF host.raw.rows # <<>>
                                                    THEN RawColumns(host.raw.rows)
                                                    ELSE parsed.columns],
                                     first \o second)
              ELSE Returned(parsed, first)

\* A variant of WorkerConnection._execute_query_async that also takes the
\* rows the column-recovery call returns after its header.
WorkerExecuteQueryAsyncTakesRows(c, query, parameters, host) ==
  IF c.closed THEN Raised("InterfaceError", <<"Connection is closed">>, <<>>)
  ELSE
    LET first == WorkerPrepareBind(query, parameters) \o <<Call("all", <<>>)>>
    IN  IF host.all_raises
        THEN Raised("OperationalError", <<"D1 Worker query failed: ", "binding">>, first)
        ELSE
          LET parsed == ParseAllResult(AllResult(host))
          IN  IF NeedsRawFallback(parsed, query)
              THEN LET second == WorkerPrepareBind(query, parameters)
                                   \o <<Call("raw", <<"columnNames">>)>>
                       given == ~host.raw.raises /\ host.raw.rows # <<>>
                       columns == IF given THEN RawColumns(host.raw.rows) ELSE parsed.columns
                       results == IF given
                                  THEN [k \in 1..(Len(host.raw.rows) - 1) |->
                                          DictZip(columns, host.raw.rows[k + 1])]
                                  ELSE parsed.results
                   IN  Returned([parsed EXCEPT !.columns = columns, !.results = results],
                                first \o second)
              ELSE Returned(parsed, first)

\* WorkerConnection._execute_query_async
WorkerExecuteQueryAsync(c, query, parameters, host) ==
  IF c.closed THEN Raised("InterfaceError", <<"Connection is closed">>, <<>>)
  ELSE
    LET first == WorkerPrepareBind(query, parameters) \o <<Call("all", <<>>)>>
    IN  IF host.all_raises
        THEN Raised("OperationalError", <<"D1 Worker query failed: ", "binding">>, first)
        ELSE
          LET parsed == ParseAllResult(AllResult(host))
          IN  IF NeedsRawFallback(parsed, query)
              THEN LET second == WorkerPrepareBind(query, parameters)
                                   \o <<Call("raw", <<"columnNames">>)>>
                       columns == IF ~host.raw.raises /\ host.raw.rows # <<>>
                                  THEN RawColumns(host.raw.rows)
                                  ELSE parsed.columns
                   IN  Returned([parsed EXCEPT !.columns = columns], first \o second)
              ELSE Returned(parsed, first)

\* SyncWorkerConnection._execute_query
SyncWorkerExecuteQuery(c, query, parameters, host, run_sync) ==
  IF c.closed THEN Raised("InterfaceError", <<"Connection is closed">>, <<>>)
  ELSE IF ~run_sync
  THEN Raised("NotSupportedError",
              <<"Synchronous execution requires Pyodide's run_sync(). ">>, <<>>)
  ELSE
    LET first == SyncPrepareBind(query, parameters) \o <<Call("all", <<>>)>>
    IN  IF host.all_raises
        THEN Raised("OperationalError", <<"D1 Worker query failed: ", "binding">>, first)
        ELSE
          LET parsed == ParseAllResult(AllResult(host))
          IN  IF NeedsRawFallback(parsed, query)
              THEN LET second == SyncPrepareBind(query, parameters)
                                   \o <<Call("raw", <<"columnNames">>)>>
                       fallback_columns == IF ~host.raw.raises /\ host.raw.rows # <<>>
                                           THEN Some(RawColumns(host.raw.rows))
                                           ELSE None
                   IN  IF fallback_columns # None /\ Get(fallback_columns) # <<>>
                       THEN Returned([parsed EXCEPT !.columns = Get(fallback_columns)],
                                     first \o second)
                       ELSE Returned(parsed, first \o second)
              ELSE Returned(parsed, first)

\* ------------------------------------------------------------ cursor
\* A variant of _process_result that counts the rows whatever the meta says.
ProcessResultCountsRows(cur, result, operation) ==
  [cur EXCEPT
     !.result_data = Some(result.results),
     !.last_result_meta = result.meta,
     !.rowcount = Len(result.results),
     !.description = BuildDescription(operation, result.columns, result.results),
     !.position = 0]

\* BaseCursorMixin._process_result
\* A variant of _process_result that keeps the last_row_id of the meta it
\* replaces when the new meta has none.
ProcessResultKeepsId(cur, result, operation) ==
  LET result_data == result.results
      meta == IF DictHas(result.meta, "last_row_id")
                 \/ ~DictHas(cur.last_result_meta, "last_row_id")
              THEN result.meta
              ELSE Append(result.meta,
                          <<"last_row_id", DictGetDefault(cur.last_result_meta, "last_row_id", 0)>>)
  IN  [cur EXCEPT
         !.result_data = Some(result_data),
         !.last_result_meta = meta,
         !.rowcount = DictGetDefault(meta, "changes",
                                     IF result_data # <<>> THEN Len(result_data) ELSE 0),
         !.description = BuildDescription(operation, result.columns, result_data),
         !.position = 0]

ProcessResult(cur, result, operation) ==
  LET result_data == result.results
      meta == result.meta
  IN  [cur EXCEPT
         !.result_data = Some(result_data),
         !.last_result_meta = meta,
         !.rowcount = DictGetDefault(meta, "changes",
                                     IF result_data # <<>> THEN Len(result_data) ELSE 0),
         !.description = BuildDescription(operation, result.columns, result_data),
         !.position = 0]

\* How a cursor call ends: the cursor after it, "return" or the exception
\* raised, what it returns, and the transport calls it made.
Outcome(cur, out, msg, ret, calls) ==
  [cur |-> cur, out |-> out, msg |-> msg, ret |-> ret, calls |-> calls]

\* A variant of Cursor.execute that asks the transport once more when the
\* first request fails.
CursorExecuteRetries(cur, c, operation, parameters, http) ==
  IF cur.closed THEN Outcome(cur, "ProgrammingError", <<"Cursor is closed">>, <<>>, <<>>)
  ELSE LET r == RestExecuteQuery(c, operation, parameters, http)
       IN  IF r.exc = ""
           THEN Outcome(ProcessResult(cur, Get(r.result), operation), "return", <<>>, <<>>, r.calls)
           ELSE Outcome(cur, "OperationalError", <<"Execute failed: ">> \o r.msg, <<>>,
                        r.calls \o r.calls)

\* A variant of Cursor.execute whose OperationalError does not carry the text
\* of the exception it replaces.
CursorExecuteNoCause(cur, c, operation, parameters, http) ==
  IF cur.closed THEN Outcome(cur, "ProgrammingError", <<"Cursor is closed">>, <<>>, <<>>)
  ELSE LET r == RestExecuteQuery(c, operation, parameters, http)
       IN  IF r.exc = ""
           THEN Outcome(ProcessResult(cur, Get(r.result), operation), "return", <<>>, <<>>, r.calls)
           ELSE Outcome(cur, "OperationalError", <<"Execute failed: ">>, <<>>, r.calls)

\* Cursor.execute: every exception of the try block becomes OperationalError
CursorExecute(cur, c, operation, parameters, http) ==
  IF cur.closed THEN Outcome(cur, "ProgrammingError", <<"Cursor is closed">>, <<>>, <<>>)
  ELSE LET r == RestExecuteQuery(c, operation, parameters, http)
       IN  IF r.exc = ""
           THEN Outcome(ProcessResult(cur, Get(r.result), operation), "return", <<>>, <<>>, r.calls)
           ELSE Outcome(cur, "OperationalError", <<"Execute failed: ">> \o r.msg, <<>>, r.calls)

\* A variant of AsyncCursor.execute whose handler lets every exception pass.
AsyncCursorExecuteReraises(cur, c, operation, parameters, http) ==
  IF cur.closed THEN Outcome(cur, "ProgrammingError", <<"Cursor is closed">>, <<>>, <<>>)
  ELSE LET r == RestExecuteQuery(c, operation, parameters, http)
       IN  IF r.exc = ""
           THEN Outcome(ProcessResult(cur, Get(r.result), operation), "return", <<>>, <<>>, r.calls)
           ELSE Outcome(cur, r.exc, r.msg, <<>>, r.calls)

\* AsyncCursor.execute: OperationalError and ProgrammingError pass, the rest
\* becomes OperationalError
AsyncCursorExecute(cur, c, operation, parameters, http) ==
  IF cur.closed THEN Outcome(cur, "ProgrammingError", <<"Cursor is closed">>, <<>>, <<>>)
  ELSE LET r == RestExecuteQuery(c, operation, parameters, http)
       IN  IF r.exc = ""
           THEN Outcome(ProcessResult(cur, Get(r.result), operation), "return", <<>>, <<>>, r.calls)
           ELSE IF r.exc \in {"OperationalError", "ProgrammingError"}
                THEN Outcome(cur, r.exc, r.msg, <<>>, r.calls)
                ELSE Outcome(cur, "OperationalError", <<"Execute failed: ">> \o r.msg, <<>>, r.calls)

\* WorkerCursor.execute_async
WorkerCursorExecuteAsync(cur, c, operation, parameters, host) ==
  IF cur.closed THEN Outcome(cur, "ProgrammingError", <<"Cursor is closed">>, <<>>, <<>>)
  ELSE LET r == WorkerExecuteQueryAsync(c, operation, parameters, host)
       IN  IF r.exc = ""
           THEN Outcome(ProcessResult(cur, Get(r.result), operation), "return", <<>>, <<>>, r.calls)
           ELSE Outcome(cur, "OperationalError", <<"Execute failed: ">> \o r.msg, <<>>, r.calls)

\* A variant of SyncWorkerCursor.execute whose handler lets only
\* OperationalError and ProgrammingError pass.
SyncWorkerCursorExecuteWraps(cur, c, operation, parameters, host, run_sync) ==
  IF cur.closed THEN Outcome(cur, "ProgrammingError", <<"Cursor is closed">>, <<>>, <<>>)
  ELSE LET r == SyncWorkerExecuteQuery(c, operation, parameters, host, run_sync)
       IN  IF r.exc = ""
           THEN Outcome(ProcessResult(cur, Get(r.result), operation), "return", <<>>, <<>>, r.calls)
           ELSE IF r.exc \in {"OperationalError", "ProgrammingError"}
                THEN Outcome(cur, r.exc, r.msg, <<>>, r.calls)
                ELSE Outcome(cur, "OperationalError", <<"Execute failed: ">> \o r.msg, <<>>, r.calls)

\* SyncWorkerCursor.execute
SyncWorkerCursorExecute(cur, c, operation, parameters, host, run_sync) ==
  IF cur.closed THEN Outcome(cur, "ProgrammingError", <<"Cursor is closed">>, <<>>, <<>>)
  ELSE LET r == SyncWorkerExecuteQuery(c, operation, parameters, host, run_sync)
       IN  IF r.exc = ""
           THEN Outcome(ProcessResult(cur, Get(r.result), operation), "return", <<>>, <<>>, r.calls)
           ELSE IF r.exc \in {"OperationalError", "ProgrammingError", "NotSupportedError"}
                THEN Outcome(cur, r.exc, r.msg, <<>>, r.calls)
                ELSE Outcome(cur, "OperationalError", <<"Execute failed: ">> \o r.msg, <<>>, r.calls)

\* BaseCursorMixin.fetchone (AsyncCursor.fetchone awaits the same body)
FetchOne(cur) ==
  IF cur.closed THEN Outcome(cur, "ProgrammingError", <<"Cursor is closed">>, None, <<>>)
  ELSE IF cur.result_data = None \/ Get(cur.result_data) = <<>>
          \/ cur.position >= Len(Get(cur.result_data))
  THEN Outcome(cur, "return", <<>>, None, <<>>)
  ELSE LET row_data == Get(cur.result_data)[cur.position + 1]
           moved == [cur EXCEPT !.position = cur.position + 1]
       IN  IF cur.description # None /\ Get(cur.description) # <<>>
           THEN LET column_names == [i \in 1..Len(Get(cur.description)) |->
                                       Get(cur.description)[i][1]]
                IN  Outcome(moved, "return", <<>>,
                            Some([i \in 1..Len(column_names) |-> DictGet(row_data, column_names[i])]),
                            <<>>)
           ELSE Outcome(moved, "return", <<>>, Some(DictValues(row_data)), <<>>)

\* for _ in range(n): row = fetchone(); if row is None: break; rows.append(row)
RECURSIVE FetchLoop(_, _, _)
FetchLoop(cur, n, rows) ==
  IF n <= 0 THEN Outcome(cur, "return", <<>>, rows, <<>>)
  ELSE LET r == FetchOne(cur)
       IN  IF r.out # "return" THEN Outcome(r.cur, r.out, r.msg, <<>>, <<>>)
           ELSE IF r.ret = None THEN Outcome(r.cur, "return", <<>>, rows, <<>>)
           ELSE FetchLoop(r.cur, n - 1, Append(rows, Get(r.ret)))

\* A variant of fetchmany that takes one row when no size is given, whatever
\* arraysize is.
FetchManyOne(cur, size) ==
  IF cur.closed THEN Outcome(cur, "ProgrammingError", <<"Cursor is closed">>, <<>>, <<>>)
  ELSE FetchLoop(cur, IF size = None THEN 1 ELSE Get(size), <<>>)

\* BaseCursorMixin.fetchmany and AsyncCursor.fetchmany (the same loop)
FetchMany(cur, size) ==
  IF cur.closed THEN Outcome(cur, "ProgrammingError", <<"Cursor is closed">>, <<>>, <<>>)
  ELSE FetchLoop(cur, IF size = None THEN cur.arraysize ELSE Get(size), <<>>)

\* while True: row = fetchone(); if row is None: break; rows.append(row)
RECURSIVE FetchAllLoop(_, _)
FetchAllLoop(cur, rows) ==
  LET r == FetchOne(cur)
  IN  IF r.out # "return" THEN Outcome(r.cur, r.out, r.msg, <<>>, <<>>)
      ELSE IF r.ret = None THEN Outcome(r.cur, "return", <<>>, rows, <<>>)
      ELSE FetchAllLoop(r.cur, Append(rows, Get(r.ret)))

\* BaseCursorMixin.fetchall and AsyncCursor.fetchall (the same loop)
FetchAll(cur) ==
  IF cur.closed THEN Outcome(cur, "ProgrammingError", <<"Cursor is closed">>, <<>>, <<>>)
  ELSE FetchAllLoop(cur, <<>>)

\* BaseCursorMixin.__next__: row = self.fetchone().  On an AsyncCursor
\* self.fetchone is the async method: the call runs none of its body and gives
\* a coroutine object, which is not None and is returned as the row.
IterNext(k, cur) ==
  IF k = "AsyncCursor" THEN Outcome(cur, "coroutine", <<>>, None, <<>>)
  ELSE LET r == FetchOne(cur)
       IN  IF r.out = "return" /\ r.ret = None
           THEN Outcome(r.cur, "StopIteration", <<>>, None, <<>>)
           ELSE r

\* BaseCursorMixin.close (AsyncCursor.close calls it)
Close(cur) ==
  [cur EXCEPT !.closed = TRUE, !.result_data = None, !.description = None]

\* BaseCursorMixin.lastrowid
LastRowId(cur) ==
  IF DictHas(cur.last_result_meta, "last_row_id")
  THEN Some(DictGetDefault(cur.last_result_meta, "last_row_id", 0))
  ELSE None

\* A variant of close that shuts the HTTP client at every call.
ConnectionCloseAlways(k, c) ==
  IF k \in RestKinds
  THEN [closed |-> TRUE, client_closed |-> c.client_closed + 1]
  ELSE [c EXCEPT !.closed = TRUE]

\* Connection.close and AsyncConnection.close shut the HTTP client once;
\* WorkerConnection.close and SyncWorkerConnection.close set the flag.
ConnectionClose(k, c) ==
  IF k \in RestKinds
  THEN IF ~c.closed
       THEN [closed |-> TRUE, client_closed |-> c.client_closed + 1]
       ELSE c
  ELSE [c EXCEPT !.closed = TRUE]

\* ------------------------------------------------------------ adapted cursor
\* AsyncAdapt_d1_cursor.__init__: the fields of the cursor SQLAlchemy's async
\* engine drives; it keeps no closed flag.
AdaptInitState ==
  [description |-> None, rows |-> <<>>, arraysize |-> 1, rowcount |-> -1, lastrowid |-> None]

\* The classes of the module's Error hierarchy.
PackageErrors ==
  {"Error", "InterfaceError", "DatabaseError", "DataError", "OperationalError",
   "IntegrityError", "InternalError", "ProgrammingError", "NotSupportedError"}

\* A variant of the handling of an exception that starts the adapted cursor
\* afresh.
AdaptHandleExceptionResets(cur, exc, msg, calls) ==
  Outcome(AdaptInitState, IF exc \in PackageErrors THEN exc ELSE "OperationalError", msg, <<>>, calls)

\* AsyncAdapt_d1_connection._handle_exception: an Error passes, anything else
\* becomes OperationalError.
AdaptHandleException(cur, exc, msg, calls) ==
  IF exc \in PackageErrors
  THEN Outcome(cur, exc, msg, <<>>, calls)
  ELSE Outcome(cur, "OperationalError", <<"D1 operation failed: ">> \o msg, <<>>, calls)

\* What a call of the adapted cursor that returns leaves: the adapted cursor
\* cur, and the AsyncCursor inner that ran the statement.
AdaptReturned(cur, inner, calls) ==
  [cur |-> cur, out |-> "return", msg |-> <<>>, ret |-> <<>>, calls |-> calls, inner |-> inner]

\* AsyncAdapt_d1_cursor.execute: a new AsyncCursor runs the statement, its rows
\* are fetched into the deque at once, and it is closed.
AdaptExecute(cur, c, operation, parameters, http) ==
  IF c.closed
  THEN AdaptHandleException(cur, "InterfaceError", <<"Connection is closed">>, <<>>)
  ELSE LET Taken(o) ==
             IF o.out # "return" THEN AdaptHandleException(cur, o.out, o.msg, o.calls)
             ELSE IF SelectLike[operation]
             THEN \* rows = self.await_(_cursor.fetchall())
                  LET all == FetchAll(o.cur)
                  IN  AdaptReturned([cur EXCEPT
                                       !.description = IF o.cur.description # None
                                                          /\ Get(o.cur.description) # <<>>
                                                       THEN o.cur.description ELSE Some(<<>>),
                                       !.lastrowid = None,
                                       !.rowcount = -1,
                                       !.rows = all.ret],
                                    Close(all.cur), o.calls)
             ELSE AdaptReturned([cur EXCEPT
                                   !.description = None,
                                   !.lastrowid = LastRowId(o.cur),
                                   !.rowcount = o.cur.rowcount,
                                   !.rows = <<>>],
                                Close(o.cur), o.calls)
       IN  CHOOSE ended \in
             { Taken(o) : o \in {AsyncCursorExecute(InitCursorState, c, operation,
                                                    parameters, http)} } : TRUE

\* ------------------------------------------------------------ actions
\* The execute of cursor class k on one input.
ExecuteOf(k, cur, c, i, run_sync) ==
  CASE k = "Cursor" -> CursorExecute(cur, c, i.operation, i.parameters, i.outcome)
    [] k = "AsyncCursor" -> AsyncCursorExecute(cur, c, i.operation, i.parameters, i.outcome)
    [] k = "WorkerCursor" -> WorkerCursorExecuteAsync(cur, c, i.operation, i.parameters, i.outcome)
    [] k = "SyncWorkerCursor" ->
         SyncWorkerCursorExecute(cur, c, i.operation, i.parameters, i.outcome, run_sync)
    [] OTHER -> AdaptExecute(cur, c, i.operation, i.parameters, i.outcome)

\* What the provider reported in an input that succeeded.
ProviderOf(k, i) ==
  IF k \in RestKinds \cup {"AsyncAdapt_d1_cursor"}
  THEN IF i.outcome.result = <<>>
       THEN [operation |-> i.operation, columns |-> <<>>, rows |-> <<>>, meta |-> <<>>,
             raw |-> NoRaw]
       ELSE [operation |-> i.operation, columns |-> i.outcome.result[1].columns,
             rows |-> i.outcome.result[1].rows, meta |-> i.outcome.result[1].meta,
             raw |-> NoRaw]
  ELSE [operation |-> i.operation, columns |-> i.outcome.columns, rows |-> i.outcome.rows,
        meta |-> i.outcome.meta, raw |-> i.outcome.raw]

CallRecord(op, parameters, seq, o, calls, runs) ==
  [op |-> op, parameters |-> parameters, seq |-> seq, size |-> None,
   out |-> o.out, msg |-> o.msg, ret |-> o.ret, calls |-> calls, runs |-> runs,
   given |-> None]

\* The record of an execute on input i: a failing one that reached the
\* provider keeps what the provider gave.
ExecuteRecord(op, parameters, seq, o, calls, runs, i) ==
  [CallRecord(op, parameters, seq, o, calls, runs) EXCEPT
     !.given = IF o.out # "return" /\ o.calls # <<>> THEN Some(i.outcome) ELSE None]

Executed(k, i) ==
  \E o \in {ExecuteOf(k, cursor, conn, i, pyodide)} :
      /\ cursor' = o.cur
      /\ last' = ExecuteRecord("execute", i.parameters, <<>>, o, o.calls, <<>>, i)
      /\ provider' = IF o.out = "return" THEN Some(ProviderOf(k, i)) ELSE provider
      /\ fetched' = IF o.out = "return" THEN <<>> ELSE fetched
      /\ UNCHANGED <<tasks, kind, pyodide, conn, em, peer>>

\* Cursor.execute, over the calls in rest
Cursor_execute(rest) ==
  /\ kind = "Cursor" /\ em = None
  /\ \E i \in rest : Executed("Cursor", i)

\* AsyncCursor.execute
AsyncCursor_execute(rest) ==
  /\ kind = "AsyncCursor" /\ em = None
  /\ \E i \in rest : Executed("AsyncCursor", i)

\* WorkerCursor.execute_async, over the calls in host
WorkerCursor_execute_async(host) ==
  /\ kind = "WorkerCursor" /\ em = None
  /\ \E i \in host : Executed("WorkerCursor", i)

\* SyncWorkerCursor.execute
SyncWorkerCursor_execute(host) ==
  /\ kind = "SyncWorkerCursor" /\ em = None
  /\ \E i \in host : Executed("SyncWorkerCursor", i)

\* A variant of the accumulation that adds every rowcount.
AddRowcountAlways(total_rowcount, rowcount) == total_rowcount + rowcount

\* if self.rowcount >= 0: total_rowcount += self.rowcount
AddRowcount(total_rowcount, rowcount) ==
  IF rowcount >= 0 THEN total_rowcount + rowcount ELSE total_rowcount

\* A variant of the pass of executemany that leaves the running total in
\* rowcount when an execution fails.
ExecuteManyPassTotals(inputs, seq, rest, total, calls, runs) ==
  \E i \in inputs :
    /\ i.parameters = Head(rest)
    /\ LET o == ExecuteOf(kind, cursor, conn, i, pyodide)
           total_rowcount == AddRowcount(total, o.cur.rowcount)
           calls2 == calls \o o.calls
           runs2 == Append(runs, o.cur.rowcount)
       IN  IF o.out # "return"
           THEN /\ cursor' = [o.cur EXCEPT !.rowcount = total]
                /\ last' = ExecuteRecord("executemany", NoParams, seq, o, calls2, runs, i)
                /\ em' = None
                /\ UNCHANGED <<provider, fetched>>
           ELSE /\ provider' = Some(ProviderOf(kind, i))
                /\ fetched' = <<>>
                /\ IF Tail(rest) = <<>>
                   THEN /\ cursor' = [o.cur EXCEPT !.rowcount = total_rowcount]
                        /\ last' = CallRecord("executemany", NoParams, seq, o, calls2, runs2)
                        /\ em' = None
                   ELSE /\ cursor' = o.cur
                        /\ last' = CallRecord("execute", i.parameters, <<>>, o, o.calls, <<>>)
                        /\ em' = Some([operation |-> i.operation, seq |-> seq, rest |-> Tail(rest),
                                       total |-> total_rowcount, calls |-> calls2, runs |-> runs2])

\* One pass of the loop of executemany over the parameter sets left, and the
\* assignment of the total after the last.
ExecuteManyPass(inputs, seq, rest, total, calls, runs) ==
  \E i \in inputs :
    /\ i.parameters = Head(rest)
    /\ LET o == ExecuteOf(kind, cursor, conn, i, pyodide)
           total_rowcount == AddRowcount(total, o.cur.rowcount)
           calls2 == calls \o o.calls
           runs2 == Append(runs, o.cur.rowcount)
       IN  IF o.out # "return"
           THEN /\ cursor' = o.cur
                /\ last' = ExecuteRecord("executemany", NoParams, seq, o, calls2, runs, i)
                /\ em' = None
                /\ UNCHANGED <<provider, fetched>>
           ELSE /\ provider' = Some(ProviderOf(kind, i))
                /\ fetched' = <<>>
                /\ IF Tail(rest) = <<>>
                   THEN /\ cursor' = [o.cur EXCEPT !.rowcount = total_rowcount]
                        /\ last' = CallRecord("executemany", NoParams, seq, o, calls2, runs2)
                        /\ em' = None
                   ELSE /\ cursor' = o.cur
                        /\ last' = CallRecord("execute", i.parameters, <<>>, o, o.calls, <<>>)
                        /\ em' = Some([operation |-> i.operation, seq |-> seq, rest |-> Tail(rest),
                                       total |-> total_rowcount, calls |-> calls2, runs |-> runs2])

\* The calls of inputs that run one statement.
OfStatement(inputs, operation) == { i \in inputs : i.operation = operation }

\* The calls of the transport of the cursor class in use.
Transport(rest, host) == IF kind \in RestKinds THEN rest ELSE host

\* Cursor.executemany, AsyncCursor.executemany, SyncWorkerCursor.executemany
\* (the same text): the call, up to the end of its first execute.
executemany(rest, host) ==
  /\ kind \in {"Cursor", "AsyncCursor", "SyncWorkerCursor"} /\ em = None
  /\ UNCHANGED <<tasks, kind, pyodide, conn, peer>>
  /\ \E operation \in PlainStatements, seq \in ParamSeqs :
       IF cursor.closed
       THEN /\ last' = CallRecord("executemany", NoParams, seq,
                                  Outcome(cursor, "ProgrammingError", <<"Cursor is closed">>, <<>>, <<>>),
                                  <<>>, <<>>)
            /\ UNCHANGED <<cursor, em, provider, fetched>>
       ELSE IF seq = <<>>
       THEN /\ cursor' = [cursor EXCEPT !.rowcount = 0]
            /\ last' = CallRecord("executemany", NoParams, seq,
                                  Outcome(cursor, "return", <<>>, <<>>, <<>>), <<>>, <<>>)
            /\ UNCHANGED <<em, provider, fetched>>
       ELSE ExecuteManyPass(OfStatement(Transport(rest, host), operation), seq, seq, 0, <<>>, <<>>)

\* executemany: each further pass of its loop.  No other call runs in between.
executemany_loop(rest, host) ==
  /\ em # None
  /\ UNCHANGED <<tasks, kind, pyodide, conn, peer>>
  /\ ExecuteManyPass(OfStatement(Transport(rest, host), Get(em).operation), Get(em).seq,
                     Get(em).rest, Get(em).total, Get(em).calls, Get(em).runs)

\* The rows a fetch call handed out, with their places in the buffer.
Handed(before, rows) == [k \in 1..Len(rows) |-> <<before.position + k, rows[k]>>]

Fetched(op, size, o, rows) ==
  /\ cursor' = o.cur
  /\ last' = [CallRecord(op, NoParams, <<>>, o, <<>>, <<>>) EXCEPT !.size = size]
  /\ fetched' = fetched \o Handed(cursor, rows)
  /\ UNCHANGED <<tasks, kind, pyodide, conn, em, provider, peer>>

fetchone ==
  /\ kind \in CursorKinds /\ em = None
  /\ LET o == FetchOne(cursor)
     IN  Fetched("fetchone", None, o, o.ret)

\* fetchmany(size), size omitted or given
fetchmany ==
  /\ kind \in CursorKinds /\ em = None
  /\ \E size \in {None} \cup { Some(n) : n \in -1..MaxRows } :
       LET o == FetchMany(cursor, size)
       IN  Fetched("fetchmany", size, o, o.ret)

fetchall ==
  /\ kind \in CursorKinds /\ em = None
  /\ LET o == FetchAll(cursor)
     IN  Fetched("fetchall", None, o, o.ret)

\* next(cursor)
iter_next ==
  /\ kind \in CursorKinds /\ em = None
  /\ LET o == IterNext(kind, cursor)
     IN  Fetched("next", None, o, o.ret)

close ==
  /\ kind \in CursorKinds /\ em = None
  /\ cursor' = Close(cursor)
  /\ last' = CallRecord("close", NoParams, <<>>,
                        Outcome(cursor, "return", <<>>, <<>>, <<>>), <<>>, <<>>)
  /\ UNCHANGED <<tasks, kind, pyodide, conn, em, provider, fetched, peer>>

\* A variant of the closing of the connection that closes its cursors too.
Connection_close_cursors ==
  /\ kind \in CursorKinds /\ em = None
  /\ conn' = ConnectionClose(kind, conn)
  /\ cursor' = Close(cursor)
  /\ peer' = IF peer = None THEN None
             ELSE Some([Get(peer) EXCEPT !.cursor = Close(Get(peer).cursor)])
  /\ last' = CallRecord("Connection.close", NoParams, <<>>,
                        Outcome(cursor, "return", <<>>, <<>>, <<>>), <<>>, <<>>)
  /\ UNCHANGED <<tasks, kind, pyodide, em, provider, fetched>>

\* close of the four connection classes
Connection_close ==
  /\ kind \in CursorKinds /\ em = None
  /\ conn' = ConnectionClose(kind, conn)
  /\ last' = CallRecord("Connection.close", NoParams, <<>>,
                        Outcome(cursor, "return", <<>>, <<>>, <<>>), <<>>, <<>>)
  /\ UNCHANGED <<tasks, kind, pyodide, cursor, em, provider, fetched, peer>>

\* AsyncCursor.executemany as one call: the loop over the parameter sets, each
\* with what the provider gives for it, and the total.
RECURSIVE AsyncExecuteManyLoop(_, _, _, _, _)
AsyncExecuteManyLoop(cur, c, inputs, total_rowcount, calls) ==
  IF inputs = <<>>
  THEN Outcome([cur EXCEPT !.rowcount = total_rowcount], "return", <<>>, <<>>, calls)
  ELSE LET Pass(o) ==
             IF o.out # "return" THEN Outcome(o.cur, o.out, o.msg, <<>>, calls \o o.calls)
             ELSE AsyncExecuteManyLoop(o.cur, c, Tail(inputs),
                                       AddRowcount(total_rowcount, o.cur.rowcount),
                                       calls \o o.calls)
       IN  CHOOSE ended \in
             { Pass(o) : o \in { AsyncCursorExecute(cur, c, i.operation, i.parameters, i.outcome)
                                  : i \in {Head(inputs)} } } : TRUE

\* AsyncAdapt_d1_cursor.executemany
AdaptExecuteMany(cur, c, inputs) ==
  IF c.closed
  THEN AdaptHandleException(cur, "InterfaceError", <<"Connection is closed">>, <<>>)
  ELSE LET Taken(o) ==
             IF o.out # "return" THEN AdaptHandleException(cur, o.out, o.msg, o.calls)
             ELSE AdaptReturned([cur EXCEPT
                                   !.description = None,
                                   !.lastrowid = LastRowId(o.cur),
                                   !.rowcount = o.cur.rowcount],
                                Close(o.cur), o.calls)
       IN  CHOOSE ended \in
             { Taken(o) : o \in {AsyncExecuteManyLoop(InitCursorState, c, inputs, 0, <<>>)} } : TRUE

\* The AsyncCursor a call of the adapted cursor made and closed is kept as the
\* other cursor of the connection.
InnerCursor(o) ==
  IF o.out = "return"
  THEN Some([cursor |-> o.inner, provider |-> None, fetched |-> <<>>])
  ELSE peer

\* AsyncAdapt_d1_cursor.execute, over the calls in rest
AsyncAdapt_d1_cursor_execute(rest) ==
  /\ kind = "AsyncAdapt_d1_cursor" /\ em = None
  /\ \E i \in rest :
       \E o \in {AdaptExecute(cursor, conn, i.operation, i.parameters, i.outcome)} :
         /\ cursor' = o.cur
         /\ last' = ExecuteRecord("execute", i.parameters, <<>>, o, o.calls, <<>>, i)
         /\ provider' = IF o.out = "return" THEN Some(ProviderOf(kind, i)) ELSE provider
         /\ fetched' = IF o.out = "return" THEN <<>> ELSE fetched
         /\ peer' = InnerCursor(o)
         /\ UNCHANGED <<tasks, kind, pyodide, conn, em>>

\* AsyncAdapt_d1_cursor.executemany, over up to MaxSets of the calls in rest
\* that run one statement with a parameter set
AsyncAdapt_d1_cursor_executemany(rest) ==
  /\ kind = "AsyncAdapt_d1_cursor" /\ em = None
  /\ \E operation \in PlainStatements, k \in 0..MaxSets :
       \E inputs \in [1..k -> { i \in OfStatement(rest, operation)
                                  : i.parameters \in ManyParamSets }] :
         \E o \in {AdaptExecuteMany(cursor, conn, inputs)} :
           /\ cursor' = o.cur
           /\ last' = CallRecord("executemany", NoParams,
                                 [n \in 1..k |-> inputs[n].parameters], o, o.calls, <<>>)
           /\ peer' = InnerCursor(o)
           /\ UNCHANGED <<tasks, kind, pyodide, conn, em, provider, fetched>>

\* AsyncAdapt_d1_connection.close: the AsyncConnection is closed
AsyncAdapt_d1_connection_close ==
  /\ kind = "AsyncAdapt_d1_cursor" /\ em = None
  /\ conn' = ConnectionClose("AsyncCursor", conn)
  /\ UNCHANGED <<tasks, kind, pyodide, cursor, em, last, provider, fetched, peer>>

\* The adapted cursor after construction, on a new connection.
InitAdapt ==
  /\ kind = "AsyncAdapt_d1_cursor"
  /\ pyodide = TRUE
  /\ conn = [closed |-> FALSE, client_closed |-> 0]
  /\ cursor = AdaptInitState
  /\ em = None
  /\ last = NoCall
  /\ provider = None
  /\ fetched = <<>>
  /\ peer = None
  /\ tasks = <<>>

\* What a call on the adapted cursor's deque leaves: the rows handed out are
\* taken from its left end.
AdaptFetched(op, size, out, rows, ret) ==
  /\ cursor' = [cursor EXCEPT !.rows = SubSeq(cursor.rows, Len(rows) + 1, Len(cursor.rows))]
  /\ last' = [CallRecord(op, NoParams, <<>>, Outcome(cursor, out, <<>>, ret, <<>>), <<>>, <<>>)
                EXCEPT !.size = size]
  /\ fetched' = fetched \o [k \in 1..Len(rows) |-> <<Len(fetched) + k, rows[k]>>]
  /\ UNCHANGED <<tasks, kind, pyodide, conn, em, provider, peer>>

\* AsyncAdapt_d1_cursor.fetchone
AsyncAdapt_d1_cursor_fetchone ==
  /\ kind = "AsyncAdapt_d1_cursor"
  /\ IF cursor.rows # <<>>
     THEN AdaptFetched("fetchone", None, "return", <<Head(cursor.rows)>>, Some(Head(cursor.rows)))
     ELSE AdaptFetched("fetchone", None, "return", <<>>, None)

\* AsyncAdapt_d1_cursor.fetchmany(size), size omitted or given:
\* range(min(size, len(self._rows))) is empty for a size below 1
AsyncAdapt_d1_cursor_fetchmany ==
  /\ kind = "AsyncAdapt_d1_cursor"
  /\ \E given \in {None} \cup { Some(n) : n \in -1..MaxRows } :
       LET size == IF given = None THEN cursor.arraysize ELSE Get(given)
           least == IF size < Len(cursor.rows) THEN size ELSE Len(cursor.rows)
           rows == SubSeq(cursor.rows, 1, least)
       IN  AdaptFetched("fetchmany", given, "return", rows, rows)

\* AsyncAdapt_d1_cursor.fetchall
AsyncAdapt_d1_cursor_fetchall ==
  /\ kind = "AsyncAdapt_d1_cursor"
  /\ AdaptFetched("fetchall", None, "return", cursor.rows, cursor.rows)

\* next() on the generator of AsyncAdapt_d1_cursor.__iter__
AsyncAdapt_d1_cursor_iter ==
  /\ kind = "AsyncAdapt_d1_cursor"
  /\ IF cursor.rows # <<>>
     THEN AdaptFetched("next", None, "return", <<Head(cursor.rows)>>, Some(Head(cursor.rows)))
     ELSE AdaptFetched("next", None, "StopIteration", <<>>, None)

\* A variant of the soft close that empties the deque.
AsyncAdapt_d1_cursor_soft_close_clears ==
  /\ kind = "AsyncAdapt_d1_cursor"
  /\ cursor' = [cursor EXCEPT !.rows = <<>>]
  /\ last' = CallRecord("_async_soft_close", NoParams, <<>>,
                        Outcome(cursor, "return", <<>>, <<>>, <<>>), <<>>, <<>>)
  /\ UNCHANGED <<tasks, kind, pyodide, conn, em, provider, fetched, peer>>

\* AsyncAdapt_d1_cursor._async_soft_close: pass
AsyncAdapt_d1_cursor_async_soft_close ==
  /\ kind = "AsyncAdapt_d1_cursor"
  /\ last' = CallRecord("_async_soft_close", NoParams, <<>>,
                        Outcome(cursor, "return", <<>>, <<>>, <<>>), <<>>, <<>>)
  /\ UNCHANGED <<tasks, kind, pyodide, conn, cursor, em, provider, fetched, peer>>

\* AsyncAdapt_d1_cursor.close: self._rows.clear()
AsyncAdapt_d1_cursor_close ==
  /\ kind = "AsyncAdapt_d1_cursor"
  /\ cursor' = [cursor EXCEPT !.rows = <<>>]
  /\ last' = CallRecord("close", NoParams, <<>>,
                        Outcome(cursor, "return", <<>>, <<>>, <<>>), <<>>, <<>>)
  /\ UNCHANGED <<tasks, kind, pyodide, conn, em, provider, fetched, peer>>

\* cursor.arraysize = size, on a cursor of any class
set_arraysize ==
  /\ em = None
  /\ \E size \in 1..MaxRows :
       /\ cursor' = [cursor EXCEPT !.arraysize = size]
       /\ last' = [CallRecord("arraysize", NoParams, <<>>,
                              Outcome(cursor, "return", <<>>, <<>>, <<>>), <<>>, <<>>)
                     EXCEPT !.size = Some(size)]
  /\ UNCHANGED <<tasks, kind, pyodide, conn, em, provider, fetched, peer>>

\* ------------------------------------------------------------ connection
\* Connection.cursor, AsyncConnection.cursor, WorkerConnection.cursor and
\* SyncWorkerConnection.cursor: a new cursor of the connection, or
\* InterfaceError once the connection is closed.  The client keeps the cursor
\* it had as the other cursor.
Connection_cursor ==
  /\ kind \in CursorKinds /\ em = None
  /\ IF conn.closed
     THEN /\ last' = CallRecord("cursor", NoParams, <<>>,
                                Outcome(cursor, "InterfaceError", <<"Connection is closed">>,
                                        <<>>, <<>>),
                                <<>>, <<>>)
          /\ UNCHANGED <<cursor, provider, fetched, peer>>
     ELSE /\ peer' = Some([cursor |-> cursor, provider |-> provider, fetched |-> fetched])
          /\ cursor' = InitCursorState
          /\ provider' = None
          /\ fetched' = <<>>
          /\ last' = CallRecord("cursor", NoParams, <<>>,
                                Outcome(cursor, "return", <<>>, <<>>, <<>>), <<>>, <<>>)
  /\ UNCHANGED <<tasks, kind, pyodide, conn, em>>

\* The client turns to the other of its two cursors; no code of the package
\* runs.
switch ==
  /\ kind \in CursorKinds /\ em = None /\ peer # None
  /\ peer' = Some([cursor |-> cursor, provider |-> provider, fetched |-> fetched])
  /\ cursor' = Get(peer).cursor
  /\ provider' = Get(peer).provider
  /\ fetched' = Get(peer).fetched
  /\ last' = [NoCall EXCEPT !.op = "switch"]
  /\ UNCHANGED <<tasks, kind, pyodide, conn, em>>

\* commit of the four connection classes: pass
ConnectionCommit(k, c) == c

\* A variant of rollback that gives the connection up.
ConnectionRollbackCloses(k, c) == [c EXCEPT !.closed = TRUE]

\* rollback of the four connection classes: pass
ConnectionRollback(k, c) == c

Connection_commit ==
  /\ kind \in CursorKinds /\ em = None
  /\ conn' = ConnectionCommit(kind, conn)
  /\ last' = CallRecord("commit", NoParams, <<>>,
                        Outcome(cursor, "return", <<>>, <<>>, <<>>), <<>>, <<>>)
  /\ UNCHANGED <<tasks, kind, pyodide, cursor, em, provider, fetched, peer>>

Connection_rollback ==
  /\ kind \in CursorKinds /\ em = None
  /\ conn' = ConnectionRollback(kind, conn)
  /\ last' = CallRecord("rollback", NoParams, <<>>,
                        Outcome(cursor, "return", <<>>, <<>>, <<>>), <<>>, <<>>)
  /\ UNCHANGED <<tasks, kind, pyodide, cursor, em, provider, fetched, peer>>

\* ------------------------------------------------------------ column types
\* The values a type processor is given: the pair of the type of a Python
\* value and the value.
NoneValue == <<"NoneType", <<>>>>
PyBool(b) == <<"bool", b>>
PyInt(n) == <<"int", n>>
PyStr(s) == <<"str", s>>
PyBytes(b) == <<"bytes", b>>

\* bool(value)
Truthy(value) ==
  CASE value[1] = "bool" -> value[2]
    [] value[1] = "int" -> value[2] # 0
    [] value[1] \in {"str", "bytes"} -> value[2] # <<>>
    [] OTHER -> FALSE

LowerChar(c) ==
  IF \E i \in 1..Len(UpperChars) : UpperChars[i] = c
  THEN LowerChars[CHOOSE i \in 1..Len(UpperChars) : UpperChars[i] = c]
  ELSE c

\* str.lower()
StrLower(s) == [i \in 1..Len(s) |-> LowerChar(s[i])]

\* The call of a processor or of the compiler: what it was given, what the
\* bind processor made of it if the result processor is run on that, and what
\* it returned.
TypeCall(op, given, bound, ret) == [op |-> op, given |-> given, bound |-> bound, ret |-> ret]

\* The values a Boolean column is given or holds.
BooleanValues ==
  { NoneValue, PyBool(TRUE), PyBool(FALSE), PyInt(0), PyInt(1), PyInt(2), PyInt(-1),
    PyStr(<<"t", "r", "u", "e">>), PyStr(<<"f", "a", "l", "s", "e">>),
    PyStr(<<"T", "r", "u", "e">>), PyStr(<<"T", "R", "U", "E">>), PyStr(<<"1">>),
    PyStr(<<"0">>), PyStr(<<>>), PyBytes(<<0>>), PyBytes(<<>>) }

\* A variant of the bind processor of D1Boolean that passes the value on.
D1Boolean_bind_processor_passes ==
  /\ kind = "D1Boolean" /\ last.op = ""
  /\ last' = TypeCall("bind_processor", last.given, None, last.given)
  /\ UNCHANGED <<tasks, kind, pyodide, conn, cursor, em, provider, fetched, peer>>

\* D1Boolean.bind_processor: None stays, anything else becomes 1 or 0
D1Boolean_bind_processor ==
  /\ kind = "D1Boolean" /\ last.op = ""
  /\ LET value == last.given
     IN  last' = TypeCall("bind_processor", value, None,
                          IF value = NoneValue THEN NoneValue
                          ELSE IF Truthy(value) THEN PyInt(1) ELSE PyInt(0))
  /\ UNCHANGED <<tasks, kind, pyodide, conn, cursor, em, provider, fetched, peer>>

\* D1Boolean.result_processor, on a stored value or on what the bind processor
\* returned
D1Boolean_result_processor ==
  /\ kind = "D1Boolean" /\ last.op \in {"", "bind_processor"}
  /\ LET value == IF last.op = "" THEN last.given ELSE last.ret
     IN  last' = TypeCall("result_processor", last.given,
                          IF last.op = "" THEN None ELSE Some(value),
                          CASE value = NoneValue -> NoneValue
                            [] value[1] = "bool" -> value
                            [] value[1] = "int" -> PyBool(Truthy(value))
                            [] value[1] = "str" ->
                                 PyBool(StrLower(value[2]) = <<"t", "r", "u", "e">>)
                            [] OTHER -> PyBool(Truthy(value)))
  /\ UNCHANGED <<tasks, kind, pyodide, conn, cursor, em, provider, fetched, peer>>

\* The base64 alphabet, and the code point of a character.
B64Alphabet ==
  UpperChars \o LowerChars \o <<"0", "1", "2", "3", "4", "5", "6", "7", "8", "9", "+", "/">>
B64Value(c) == (CHOOSE i \in 1..Len(B64Alphabet) : B64Alphabet[i] = c) - 1
Ord(c) ==
  IF \E i \in 1..Len(B64Alphabet) : B64Alphabet[i] = c
  THEN LET i == B64Value(c)
       IN  CASE i < 26 -> 65 + i
             [] i >= 26 /\ i < 52 -> 97 + (i - 26)
             [] i >= 52 /\ i < 62 -> 48 + (i - 52)
             [] i = 62 -> 43
             [] OTHER -> 47
  ELSE IF c = "=" THEN 61 ELSE 33

\* base64.b64encode(b).decode("ascii"): three bytes give four characters, and
\* the one or two bytes left over give two or three characters and padding.
RECURSIVE B64Encode(_)
B64Encode(b) ==
  IF b = <<>> THEN <<>>
  ELSE IF Len(b) = 1
  THEN LET n == b[1] * 16
       IN  <<B64Alphabet[(n \div 64) + 1], B64Alphabet[(n % 64) + 1], "=", "=">>
  ELSE IF Len(b) = 2
  THEN LET n == (b[1] * 256 + b[2]) * 4
       IN  <<B64Alphabet[(n \div 4096) + 1], B64Alphabet[((n \div 64) % 64) + 1],
             B64Alphabet[(n % 64) + 1], "=">>
  ELSE LET n == b[1] * 65536 + b[2] * 256 + b[3]
       IN  <<B64Alphabet[(n \div 262144) + 1], B64Alphabet[((n \div 4096) % 64) + 1],
             B64Alphabet[((n \div 64) % 64) + 1], B64Alphabet[(n % 64) + 1]>>
           \o B64Encode(SubSeq(b, 4, Len(b)))

\* The bytes the characters of one group stand for, the bits left over dropped.
B64Group(quad) ==
  CASE Len(quad) = 2 -> <<quad[1] * 4 + (quad[2] \div 16)>>
    [] Len(quad) = 3 -> <<quad[1] * 4 + (quad[2] \div 16),
                          (quad[2] % 16) * 16 + (quad[3] \div 4)>>
    [] Len(quad) = 4 -> <<quad[1] * 4 + (quad[2] \div 16),
                          (quad[2] % 16) * 16 + (quad[3] \div 4),
                          (quad[3] % 4) * 64 + quad[4]>>
    [] OTHER -> <<>>

\* base64.b64decode(s): characters outside the alphabet are skipped, padding
\* that completes a group ends the data, and a group left open at the end is
\* binascii.Error.
RECURSIVE B64Decode(_, _, _, _, _)
B64Decode(s, i, quad, pads, out) ==
  IF i > Len(s)
  THEN IF quad = <<>> THEN [ok |-> TRUE, v |-> out] ELSE [ok |-> FALSE, v |-> <<>>]
  ELSE IF s[i] = "="
  THEN IF Len(quad) >= 2 /\ Len(quad) + pads + 1 >= 4
       THEN [ok |-> TRUE, v |-> out \o B64Group(quad)]
       ELSE B64Decode(s, i + 1, quad, pads + 1, out)
  ELSE IF \A k \in 1..Len(B64Alphabet) : B64Alphabet[k] # s[i]
  THEN B64Decode(s, i + 1, quad, pads, out)
  ELSE LET more == Append(quad, B64Value(s[i]))
       IN  IF Len(more) = 4
           THEN B64Decode(s, i + 1, <<>>, 0, out \o B64Group(more))
           ELSE B64Decode(s, i + 1, more, 0, out)

\* The byte strings a LargeBinary column is given, and what it may hold that
\* the bind processor did not write.
ByteValues == {0, 65, 128, 255}
ByteSeqs == UNION { [1..n -> ByteValues] : n \in 0..MaxBytes }
BinaryValues ==
  { PyBytes(b) : b \in ByteSeqs }
  \cup { NoneValue, PyInt(7), PyStr(<<>>), PyStr(<<"Q", "Q", "=", "=">>), PyStr(<<"Q", "Q">>),
         PyStr(<<"h", "i", "!">>), PyStr(<<"a", "b", "c", "d">>) }

\* A variant of the bind processor of D1LargeBinary that leaves the padding
\* out.
D1LargeBinary_bind_processor_unpadded ==
  /\ kind = "D1LargeBinary" /\ last.op = ""
  /\ LET value == last.given
     IN  last' = TypeCall("bind_processor", value, None,
                          IF value[1] = "bytes"
                          THEN PyStr(SelectSeq(B64Encode(value[2]), LAMBDA c : c # "="))
                          ELSE value)
  /\ UNCHANGED <<tasks, kind, pyodide, conn, cursor, em, provider, fetched, peer>>

\* D1LargeBinary.bind_processor: bytes become their base64 text
D1LargeBinary_bind_processor ==
  /\ kind = "D1LargeBinary" /\ last.op = ""
  /\ LET value == last.given
     IN  last' = TypeCall("bind_processor", value, None,
                          CASE value = NoneValue -> NoneValue
                            [] value[1] = "bytes" -> PyStr(B64Encode(value[2]))
                            [] OTHER -> value)
  /\ UNCHANGED <<tasks, kind, pyodide, conn, cursor, em, provider, fetched, peer>>

\* D1LargeBinary.result_processor, on a stored value or on what the bind
\* processor returned: a str is decoded, or encoded as UTF-8 if it is not
\* base64
D1LargeBinary_result_processor ==
  /\ kind = "D1LargeBinary" /\ last.op \in {"", "bind_processor"}
  /\ LET value == IF last.op = "" THEN last.given ELSE last.ret
     IN  last' = TypeCall("result_processor", last.given,
                          IF last.op = "" THEN None ELSE Some(value),
                          CASE value = NoneValue -> NoneValue
                            [] value[1] = "bytes" -> value
                            [] value[1] = "str" ->
                                 LET decoded == B64Decode(value[2], 1, <<>>, 0, <<>>)
                                 IN  IF decoded.ok THEN PyBytes(decoded.v)
                                     ELSE PyBytes([k \in 1..Len(value[2]) |-> Ord(value[2][k])])
                            [] OTHER -> value)
  /\ UNCHANGED <<tasks, kind, pyodide, conn, cursor, em, provider, fetched, peer>>

\* ------------------------------------------------------------ DDL compiler
\* The columns of a table: a primary-key column is not nullable, and a column
\* may have a server default.  The text of a statement is the sequence of its
\* words, "PRIMARY KEY" and "NOT NULL" being one word each.
ColumnKinds ==
  { [type |-> "INTEGER", primary_key |-> TRUE, nullable |-> FALSE, default |-> None],
    [type |-> "VARCHAR", primary_key |-> TRUE, nullable |-> FALSE, default |-> None],
    [type |-> "VARCHAR", primary_key |-> FALSE, nullable |-> TRUE, default |-> None],
    [type |-> "INTEGER", primary_key |-> FALSE, nullable |-> FALSE, default |-> Some("0")] }
ColumnNames == <<"a", "b", "c", "d", "e">>

\* Table(name, *columns, sqlite_autoincrement=...)
Tables ==
  UNION { [columns : [1..n -> ColumnKinds], autoincrement : BOOLEAN] : n \in 1..MaxColumns }

\* The places of the columns of table.primary_key
PrimaryKeyColumns(table) == { n \in 1..Len(table.columns) : table.columns[n].primary_key }

\* CloudflareD1DDLCompiler.get_column_specification for column n of table; no
\* column is computed
GetColumnSpecification(table, n, first_pk) ==
  LET column == table.columns[n]
  IN  <<ColumnNames[n], column.type>>
      \o (IF column.default # None THEN <<"DEFAULT", Get(column.default)>> ELSE <<>>)
      \o (IF ~column.nullable THEN <<"NOT NULL">> ELSE <<>>)
      \o (IF column.primary_key /\ first_pk THEN <<"PRIMARY KEY">> ELSE <<>>)

\* The names of the columns at the places ns in order, with commas.
RECURSIVE NameList(_, _)
NameList(ns, from) ==
  IF \A n \in ns : n < from THEN <<>>
  ELSE IF from \in ns
  THEN (IF \E n \in ns : n < from THEN <<",">> ELSE <<>>) \o <<ColumnNames[from]>>
       \o NameList(ns, from + 1)
  ELSE NameList(ns, from + 1)

\* CloudflareD1DDLCompiler.create_table_constraints: the primary key is a
\* constraint of the table if it has more than one column.
CreateTableConstraints(table) ==
  IF PrimaryKeyColumns(table) # {} /\ Cardinality(PrimaryKeyColumns(table)) > 1
  THEN <<"PRIMARY KEY", "(">> \o NameList(PrimaryKeyColumns(table), 1) \o <<")">>
  ELSE <<>>

\* The loop of DDLCompiler.visit_create_table over the columns from n on:
\* first_pk is passed as true for the first primary-key column of the table.
RECURSIVE CreateColumns(_, _, _)
CreateColumns(table, n, first_pk) ==
  IF n > Len(table.columns) THEN <<>>
  ELSE LET column == table.columns[n]
       IN  (IF n > 1 THEN <<",">> ELSE <<>>)
           \o GetColumnSpecification(table, n, column.primary_key /\ ~first_pk)
           \o CreateColumns(table, n + 1, first_pk \/ column.primary_key)

\* CreateTable(table).compile(dialect=CloudflareD1Dialect())
CloudflareD1DDLCompiler_visit_create_table ==
  /\ kind = "CloudflareD1DDLCompiler" /\ last.op = ""
  /\ LET table == last.given
         const == CreateTableConstraints(table)
     IN  last' = TypeCall("visit_create_table", table, None,
                          <<"CREATE TABLE", "t", "(">> \o CreateColumns(table, 1, FALSE)
                          \o (IF const # <<>> THEN <<",">> \o const ELSE <<>>) \o <<")">>)
  /\ UNCHANGED <<tasks, kind, pyodide, conn, cursor, em, provider, fetched, peer>>

\* A value handed to a type processor, or a table handed to the compiler.
InitTypes ==
  /\ kind \in {"D1Boolean", "D1LargeBinary", "CloudflareD1DDLCompiler"}
  /\ \E given \in (CASE kind = "D1Boolean" -> BooleanValues
                     [] kind = "D1LargeBinary" -> BinaryValues
                     [] OTHER -> Tables) :
       last = TypeCall("", given, None, None)
  /\ pyodide = TRUE
  /\ conn = [closed |-> FALSE, client_closed |-> 0]
  /\ cursor = None
  /\ em = None
  /\ provider = None
  /\ fetched = <<>>
  /\ peer = None
  /\ tasks = <<>>

\* ------------------------------------------------------------ specifications
\* Statements of every class over every result shape, and the fetch calls.
Next ==
  \/ Cursor_execute(RestShapes)
  \/ AsyncCursor_execute(RestShapes)
  \/ WorkerCursor_execute_async(HostShapes)
  \/ SyncWorkerCursor_execute(HostShapes)
  \/ fetchone
  \/ fetchmany
  \/ fetchall
  \/ iter_next
  \/ close

Spec == Init /\ [][Next]_vars

\* execute and executemany over every meta, with failures.
NextCounts ==
  \/ Cursor_execute(RestCounts)
  \/ AsyncCursor_execute(RestCounts)
  \/ WorkerCursor_execute_async(HostCounts)
  \/ SyncWorkerCursor_execute(HostCounts)
  \/ executemany(RestCounts, HostCounts)
  \/ executemany_loop(RestCounts, HostCounts)

SpecCounts == Init /\ [][NextCounts]_vars

\* Every call on the cursor and the closing of the connection, over a few
\* results.
NextCalls ==
  \/ Cursor_execute(RestFew)
  \/ AsyncCursor_execute(RestFew)
  \/ WorkerCursor_execute_async(HostFew)
  \/ SyncWorkerCursor_execute(HostFew)
  \/ executemany(RestFew, HostFew)
  \/ executemany_loop(RestFew, HostFew)
  \/ fetchone
  \/ fetchmany
  \/ fetchall
  \/ iter_next
  \/ close
  \/ Connection_close

SpecCalls == Init /\ [][NextCalls]_vars

\* execute with every parameters argument.
NextParams ==
  \/ Cursor_execute(RestParams)
  \/ AsyncCursor_execute(RestParams)
  \/ WorkerCursor_execute_async(HostParams)
  \/ SyncWorkerCursor_execute(HostParams)

SpecParams == Init /\ [][NextParams]_vars

\* One statement with every failure of the POST, next to the calls of RestFew.
RestErrors ==
  RestFew \cup { Input(SqlSelect, NoParams, h) : h \in HttpFailures }

\* execute and executemany of the four cursor classes and of the adapted
\* cursor, and the closing of the connection, with every failure.
NextErrors ==
  \/ Cursor_execute(RestErrors)
  \/ AsyncCursor_execute(RestErrors)
  \/ WorkerCursor_execute_async(HostParams)
  \/ SyncWorkerCursor_execute(HostParams)
  \/ executemany(RestErrors, HostFew)
  \/ executemany_loop(RestErrors, HostFew)
  \/ AsyncAdapt_d1_cursor_execute(RestErrors)
  \/ AsyncAdapt_d1_cursor_executemany(RestErrors)
  \/ Connection_close
  \/ AsyncAdapt_d1_connection_close

SpecErrors == (Init \/ InitAdapt) /\ [][NextErrors]_vars

\* A query with rows, a statement that changes a row, with and without a
\* parameter set, and a failure.
RestOne ==
  { Input(SqlSelect, NoParams, HttpJson(<<"a">>, ResultRows(MaxRows, 1), <<>>)),
    Input(SqlSelect, NoParams, HttpApiError) }
  \cup { Input(SqlInsert, p, HttpJson(<<>>, <<>>, << <<"changes", 1>> >>))
         : p \in {NoParams} \cup ManyParamSets }
HostOne ==
  { Input(SqlSelect, NoParams, HostRows(ResultRows(MaxRows, 1), <<>>)),
    Input(SqlSelect, NoParams, HostFailure) }
  \cup { Input(SqlInsert, p, HostEmpty(<< <<"changes", 1>> >>, NoRaw))
         : p \in {NoParams} \cup ManyParamSets }

\* Two cursors of one connection: every call on either, and cursor, commit,
\* rollback and close on the connection.
NextConn ==
  \/ Cursor_execute(RestOne)
  \/ AsyncCursor_execute(RestOne)
  \/ WorkerCursor_execute_async(HostOne)
  \/ SyncWorkerCursor_execute(HostOne)
  \/ executemany(RestOne, HostOne)
  \/ executemany_loop(RestOne, HostOne)
  \/ fetchone
  \/ fetchmany
  \/ fetchall
  \/ close
  \/ Connection_cursor
  \/ switch
  \/ Connection_commit
  \/ Connection_rollback
  \/ Connection_close

SpecConn == Init /\ [][NextConn]_vars

\* A query over every number of rows, the same query with a parameter set that
\* gives as many rows as it has values, and a failure; over REST also an INSERT
\* with and without RETURNING to which the provider gives a row.
RestFetch ==
  { Input(SqlSelect, NoParams, HttpJson(<<"a">>, r, <<>>)) : r \in PlainRowSeqs }
  \cup { Input(s, NoParams, HttpJson(<<"a">>, ResultRows(1, 1), <<>>))
         : s \in {SqlInsert, SqlInsertReturning} }
  \cup { Input(SqlSelect, p, HttpJson(<<"a">>, ResultRows(Len(p.v), 1), <<>>)) : p \in ManyParamSets }
  \cup { Input(SqlSelect, NoParams, HttpApiError) }
HostFetch ==
  { Input(SqlSelect, NoParams, HostPlain(r, <<>>)) : r \in PlainRowSeqs }
  \cup { Input(SqlSelect, p, HostPlain(ResultRows(Len(p.v), 1), <<>>)) : p \in ManyParamSets }
  \cup { Input(SqlSelect, NoParams, HostFailure) }

\* The four cursor classes and the adapted cursor: execute, executemany, every
\* way of fetching, the setting of arraysize, and close.
NextFetch ==
  \/ Cursor_execute(RestFetch)
  \/ AsyncCursor_execute(RestFetch)
  \/ WorkerCursor_execute_async(HostFetch)
  \/ SyncWorkerCursor_execute(HostFetch)
  \/ executemany(RestFetch, HostFetch)
  \/ executemany_loop(RestFetch, HostFetch)
  \/ fetchone
  \/ fetchmany
  \/ fetchall
  \/ iter_next
  \/ close
  \/ set_arraysize
  \/ AsyncAdapt_d1_cursor_execute(RestFetch)
  \/ AsyncAdapt_d1_cursor_executemany(RestFetch)
  \/ AsyncAdapt_d1_cursor_fetchone
  \/ AsyncAdapt_d1_cursor_fetchmany
  \/ AsyncAdapt_d1_cursor_fetchall
  \/ AsyncAdapt_d1_cursor_iter
  \/ AsyncAdapt_d1_cursor_async_soft_close
  \/ AsyncAdapt_d1_cursor_close

SpecFetch == (Init \/ InitAdapt) /\ [][NextFetch]_vars


\* The type processors of the dialect and its DDL compiler, each applied to
\* every value or table.
NextTypes ==
  \/ D1Boolean_bind_processor
  \/ D1Boolean_result_processor
  \/ D1LargeBinary_bind_processor
  \/ D1LargeBinary_result_processor
  \/ CloudflareD1DDLCompiler_visit_create_table

SpecTypes == InitTypes /\ [][NextTypes]_vars

\* ------------------------------------------------------------ coroutines
\* The asynchronous classes over one event loop: a coroutine runs until it
\* awaits the transport, and any coroutine whose await has ended runs next.
\* A suspended coroutine is <<"execute", call>> or <<"close">>.

\* A response meta with and without the id of the inserted row.
IdMetas ==
  { <<>>,
    << <<"changes", 1>>, <<"last_row_id", 1>> >>,
    << <<"changes", 1>>, <<"last_row_id", 2>> >> }

\* What raw({columnNames: true}) gives when the statement, run again, has
\* rows by then: the header and the rows.
RawWithRows == [raises |-> FALSE, rows |-> << <<"a">> >> \o ResultRows(MaxRows, 1)]

RestIds ==
  { Input(SqlInsert, NoParams, HttpJson(<<>>, <<>>, m)) : m \in IdMetas }
  \cup { Input(SqlSelect, NoParams, HttpJson(<<"a">>, r, <<>>)) : r \in PlainRowSeqs }
  \cup { Input(SqlSelect, NoParams, HttpApiError) }
HostIds ==
  { Input(SqlInsert, NoParams, HostEmpty(m, NoRaw)) : m \in IdMetas }
  \cup { Input(SqlSelect, NoParams, HostPlain(r, <<>>)) : r \in PlainRowSeqs }
  \cup { Input(SqlSelect, NoParams, HostEmpty(m, RawWithRows)) : m \in IdMetas }
  \cup { Input(SqlSelect, NoParams, HostFailure) }

\* The suspended coroutines without the n-th.
Resumed(n) == SubSeq(tasks, 1, n - 1) \o SubSeq(tasks, n + 1, Len(tasks))

\* AsyncCursor.execute up to `await self.connection._execute_query(...)`,
\* whose only await is that of client.post: a closed cursor and a closed
\* connection raise before it, otherwise the request is sent and the
\* coroutine is suspended.
AsyncCursor_execute_send(rest) ==
  /\ kind = "AsyncCursor" /\ em = None
  /\ \E i \in rest :
       IF cursor.closed \/ conn.closed
       THEN Executed("AsyncCursor", i)
       ELSE /\ Len(tasks) < MaxTasks
            /\ tasks' = Append(tasks, <<"execute", i>>)
            /\ UNCHANGED <<kind, pyodide, conn, cursor, em, last, provider, fetched, peer>>

\* A variant of the resumption that is suspended once more between the
\* assignments of _process_result: rowcount is not assigned yet.
AsyncCursor_execute_resume_in_parts ==
  /\ kind = "AsyncCursor"
  /\ \E n \in 1..Len(tasks) :
       /\ tasks[n][1] = "execute"
       /\ \E i \in {tasks[n][2]} :
            \E o \in {AsyncCursorExecute([cursor EXCEPT !.closed = FALSE],
                                         [conn EXCEPT !.closed = FALSE],
                                         i.operation, i.parameters, i.outcome)} :
              /\ cursor' = [o.cur EXCEPT !.closed = cursor.closed, !.rowcount = cursor.rowcount]
              /\ last' = ExecuteRecord("execute", i.parameters, <<>>, o, o.calls, <<>>, i)
              /\ provider' = IF o.out = "return" THEN Some(ProviderOf(kind, i)) ELSE provider
              /\ fetched' = IF o.out = "return" THEN <<>> ELSE fetched
       /\ tasks' = Resumed(n)
  /\ UNCHANGED <<kind, pyodide, conn, em, peer>>

\* AsyncCursor.execute from the end of the await: the envelope is unpacked,
\* _process_result assigns the five fields with no await in between, and an
\* exception is mapped.  Neither closed flag is read again.
AsyncCursor_execute_resume ==
  /\ kind = "AsyncCursor"
  /\ \E n \in 1..Len(tasks) :
       /\ tasks[n][1] = "execute"
       /\ \E i \in {tasks[n][2]} :
            \E o \in {AsyncCursorExecute([cursor EXCEPT !.closed = FALSE],
                                         [conn EXCEPT !.closed = FALSE],
                                         i.operation, i.parameters, i.outcome)} :
              /\ cursor' = [o.cur EXCEPT !.closed = cursor.closed]
              /\ last' = ExecuteRecord("execute", i.parameters, <<>>, o, o.calls, <<>>, i)
              /\ provider' = IF o.out = "return" THEN Some(ProviderOf(kind, i)) ELSE provider
              /\ fetched' = IF o.out = "return" THEN <<>> ELSE fetched
       /\ tasks' = Resumed(n)
  /\ UNCHANGED <<kind, pyodide, conn, em, peer>>

\* AsyncConnection.close up to `await self.client.aclose()`: nothing is done
\* on a closed connection, otherwise aclose() is called and the coroutine is
\* suspended.
AsyncConnection_close_send ==
  /\ kind = "AsyncCursor" /\ em = None
  /\ IF conn.closed
     THEN /\ last' = CallRecord("Connection.close", NoParams, <<>>,
                                Outcome(cursor, "return", <<>>, <<>>, <<>>), <<>>, <<>>)
          /\ UNCHANGED <<tasks, kind, pyodide, conn, cursor, em, provider, fetched, peer>>
     ELSE /\ Len(tasks) < MaxTasks
          /\ conn' = [conn EXCEPT !.client_closed = @ + 1]
          /\ tasks' = Append(tasks, <<"close">>)
          /\ UNCHANGED <<kind, pyodide, cursor, em, last, provider, fetched, peer>>

\* AsyncConnection.close from the end of the await: self._closed = True
AsyncConnection_close_resume ==
  /\ kind = "AsyncCursor"
  /\ \E n \in 1..Len(tasks) :
       /\ tasks[n][1] = "close"
       /\ tasks' = Resumed(n)
  /\ conn' = [conn EXCEPT !.closed = TRUE]
  /\ last' = CallRecord("Connection.close", NoParams, <<>>,
                        Outcome(cursor, "return", <<>>, <<>>, <<>>), <<>>, <<>>)
  /\ UNCHANGED <<kind, pyodide, cursor, em, provider, fetched, peer>>

\* The four cursor classes over responses with and without an inserted row's
\* id; on the asynchronous REST classes execute and the connection's close
\* are coroutines that interleave at their awaits.
NextTasks ==
  \/ Cursor_execute(RestIds)
  \/ WorkerCursor_execute_async(HostIds)
  \/ SyncWorkerCursor_execute(HostIds)
  \/ AsyncCursor_execute_send(RestIds)
  \/ AsyncCursor_execute_resume
  \/ AsyncConnection_close_send
  \/ AsyncConnection_close_resume
  \/ fetchone
  \/ fetchall
  \/ close

SpecTasks == Init /\ [][NextTasks]_vars


\* ------------------------------------------------------------ properties
\* The names of a description.
Names(description) == [i \in 1..Len(description) |-> description[i][1]]

\* The classification as the contract words it: the trimmed, upper-cased text
\* starts with SELECT, PRAGMA or WITH, or contains RETURNING.
RowReturning ==
  [s \in Statements |->
     LET text == StrUpper(StrStrip(s))
     IN  \/ \E kw \in {kwSELECT, kwPRAGMA, kwWITH} : StartsWith(text, kw)
         \/ Contains(text, kwRETURNING)]

\* The trimmed, upper-cased text starts with SELECT.
BeginsWithSelect == [s \in Statements |-> StartsWith(StrUpper(StrStrip(s)), kwSELECT)]

\* A statement has been executed on the cursor, which is open.
OpenAfterExecute == provider # None /\ ~cursor.closed

\* The last call returned.
Returns(op) == last.op = op /\ last.out = "return"

\* C1: after a successful execute of a row-returning statement over REST
\* whose response reports columns C and no row, description is a list of
\* len(C) descriptors named C in the reported order, and fetchall returns [].
C1_RestZeroRows ==
  (/\ kind \in RestKinds
   /\ OpenAfterExecute
   /\ RowReturning[Get(provider).operation]
   /\ Get(provider).rows = <<>>)
  => /\ cursor.description # None
     /\ Len(Get(cursor.description)) = Len(Get(provider).columns)
     /\ Names(Get(cursor.description)) = Get(provider).columns
     /\ (Returns("fetchall") => last.ret = <<>>)

C1_Witness ==
  /\ kind \in RestKinds
  /\ OpenAfterExecute
  /\ RowReturning[Get(provider).operation]
  /\ Get(provider).rows = <<>>
  /\ Get(provider).columns = <<"b", "a">>
  /\ Returns("fetchall")

\* The names raw({columnNames: true}) reports: its first row, none if the
\* array is empty.
RawNames(raw) == IF raw.rows = <<>> THEN <<>> ELSE raw.rows[1]

\* The native cursor is open after the execute of statement s whose all() gave
\* no row.
NativeZeroRows ==
  /\ kind \notin RestKinds
  /\ OpenAfterExecute
  /\ Get(provider).rows = <<>>

Cells(row) == { row[i] : i \in 1..Len(row) }

\* fetchall was called with no row handed out since the execute, and returned.
FirstFetchall == Returns("fetchall") /\ Len(fetched) = Len(last.ret)

\* C3: after execute of a row-returning statement whose result has exactly one
\* row, on both transports, description holds exactly the column names and
\* fetchall returns exactly one tuple holding that row's values; no value is in
\* description, no name in the tuple; the native execute calls no raw().
C3_SingleRow ==
  (/\ OpenAfterExecute
   /\ RowReturning[Get(provider).operation]
   /\ Len(Get(provider).rows) = 1)
  => /\ cursor.description # None
     /\ Names(Get(cursor.description)) = Get(provider).columns
     /\ Cells(Names(Get(cursor.description))) \cap Cells(Get(provider).rows[1]) = {}
     /\ (FirstFetchall =>
           /\ last.ret = Get(provider).rows
           /\ Cells(last.ret[1]) \cap Cells(Get(provider).columns) = {})
     /\ ((kind \notin RestKinds /\ last.op = "execute")
           => \A n \in 1..Len(last.calls) : last.calls[n].f # "raw")

\* The provider's row idx holds value under the column called name.
HoldsUnder(idx, name, value) ==
  \E j \in 1..Len(Get(provider).columns) :
    /\ Get(provider).columns[j] = name
    /\ Get(provider).rows[idx][j] = value

C5_Prefix ==
  OpenAfterExecute
  => /\ Len(fetched) <= Len(Get(provider).rows)
     /\ \A k \in 1..Len(fetched) : fetched[k] = <<k, Get(provider).rows[k]>>
     /\ cursor.position = Len(fetched)
     /\ (Returns("fetchall") => cursor.position = Len(Get(provider).rows))

\* The call that follows a fetchall that returned: fetchone returns None,
\* fetchall returns [], next() stops, and the position stays.
C5_Exhausted ==
  (OpenAfterExecute /\ Returns("fetchall") /\ last' # last /\ provider' = provider)
  => /\ (last'.op = "fetchone" => last'.out = "return" /\ last'.ret = None)
     /\ (last'.op = "fetchall" => last'.out = "return" /\ last'.ret = <<>>)
     /\ (last'.op = "next" => last'.out = "StopIteration")
     /\ (last'.op \in {"fetchone", "fetchall", "next"} => cursor'.position = cursor.position)

\* C5: for any sequence of fetchone, fetchmany, fetchall and next() calls after
\* one successful execute, the rows returned form, in call order, a prefix of
\* the provider's rows; the position advances by one per row returned; after
\* fetchall the cursor is exhausted: fetchone returns None, fetchall returns
\* [], next() stops.
C5_FetchSequence == [](C5_Prefix) /\ [][C5_Exhausted]_vars

\* C6: after every successful execute on an open cursor, description is None
\* exactly when the statement's trimmed, upper-cased text neither starts with
\* SELECT, PRAGMA or WITH nor contains RETURNING, whatever the response holds.
C6_DescriptionNoneIff ==
  OpenAfterExecute
  => (cursor.description = None <=> ~RowReturning[Get(provider).operation])

C6_Witness ==
  /\ OpenAfterExecute
  /\ last.op = "execute"
  /\ Get(provider).operation = SqlInsertReturning
  /\ Get(provider).rows # <<>>
  /\ cursor.description # None

\* C7: on a closed cursor of any class, execute, executemany, fetchone,
\* fetchmany, fetchall and next() raise ProgrammingError and make no transport
\* call; close() returns and the cursor stays closed.
C7_ClosedCursor ==
  cursor.closed
  => /\ (last.op \in {"execute", "executemany", "fetchone", "fetchmany", "fetchall", "next"}
           => last.out = "ProgrammingError" /\ last.calls = <<>>)
     /\ (last.op = "close" => last.out = "return")

\* The sum of the entries of runs that are not negative.
RECURSIVE SumNonNegative(_)
SumNonNegative(runs) ==
  IF runs = <<>> THEN 0
  ELSE (IF Head(runs) < 0 THEN 0 ELSE Head(runs)) + SumNonNegative(Tail(runs))

\* C8: after an executemany whose N executions all succeed, rowcount is the
\* sum of the rowcounts the N executions set, the negative ones left out: N
\* when each is 1, and 0, with no request made, for an empty sequence.
C8_ExecutemanyRowcount ==
  Returns("executemany")
  => /\ Len(last.runs) = Len(last.seq)
     /\ cursor.rowcount = SumNonNegative(last.runs)
     /\ ((\A n \in 1..Len(last.runs) : last.runs[n] = 1) => cursor.rowcount = Len(last.seq))
     /\ (last.seq = <<>> => cursor.rowcount = 0 /\ last.calls = <<>>)

C8_Witness ==
  /\ Returns("executemany")
  /\ Len(last.seq) = MaxSets
  /\ \E n \in 1..Len(last.runs) : last.runs[n] < 0
  /\ \E n \in 1..Len(last.runs) : last.runs[n] > 0
  /\ cursor.rowcount = SumNonNegative(last.runs)

\* The rowcount a response stands for: its changes count if the meta has one,
\* or else the number of its rows.
ReportedCount(p) ==
  IF \E n \in 1..Len(p.meta) : p.meta[n][1] = "changes"
  THEN p.meta[CHOOSE n \in 1..Len(p.meta) : p.meta[n][1] = "changes"][2]
  ELSE Len(p.rows)

\* After each successful execute rowcount is the reported count.
C9_AfterExecute == Returns("execute") => cursor.rowcount = ReportedCount(Get(provider))

\* C9, as claimed: rowcount is -1 until the first successful execute; after
\* each successful execute it is the provider's changes count if the meta has
\* one, or else the number of rows buffered.
C9_AsClaimed ==
  /\ provider = None => cursor.rowcount = -1
  /\ C9_AfterExecute

\* Before the first successful execute only an executemany call over an empty
\* sequence changes rowcount, to 0.
C9_UntilExecute ==
  (provider' = None /\ cursor'.rowcount # cursor.rowcount)
  => /\ last'.op = "executemany" /\ last'.out = "return" /\ last'.seq = <<>>
     /\ cursor'.rowcount = 0

\* C9, amended: rowcount is -1 on a new cursor and, until the first successful
\* execute, is changed only by an executemany call over an empty sequence,
\* which sets it to 0; after each successful execute it is the provider's
\* changes count if the meta has one, or else the number of rows buffered.
C9_Rowcount ==
  /\ [](C9_AfterExecute /\ (provider = None => cursor.rowcount \in {-1, 0}))
  /\ [][C9_UntilExecute]_vars

C9_Witness ==
  /\ Returns("execute")
  /\ Get(provider).meta = <<>>
  /\ Len(Get(provider).rows) = MaxRows
  /\ cursor.rowcount = MaxRows

\* A parameter as bind is to receive it: the host's null for None.
NullMarked(value) == IF value = PyNone THEN JsNull ELSE value

\* C10: on both native execution paths every bind call, of the first run and
\* of the column-recovery run, receives the parameters in order, each None
\* replaced by the host's null marker and the others unchanged.
C10_BindNeverNone ==
  (kind \notin RestKinds /\ last.op = "execute")
  => \A n \in 1..Len(last.calls) :
       last.calls[n].f = "bind"
       => /\ PyNone \notin Cells(last.calls[n].a)
          /\ last.calls[n].a = [i \in 1..Len(last.parameters.v) |-> NullMarked(last.parameters.v[i])]

\* A call of execute ends in this step (executemany's own executes apart).
ExecuteEnds == last' # last /\ last'.op = "execute" /\ em = None /\ em' = None

\* C11: where pyodide.ffi.run_sync cannot be imported, SyncWorkerCursor.execute
\* on an open cursor of an open connection raises NotSupportedError, calls
\* nothing on the binding and leaves every field of the cursor as it was.
C11_NoRunSync ==
  [][(kind = "SyncWorkerCursor" /\ ~pyodide /\ ~cursor.closed /\ ~conn.closed /\ ExecuteEnds)
     => /\ last'.out = "NotSupportedError"
        /\ last'.calls = <<>>
        /\ cursor' = cursor]_vars

\* Such an execute has failed on a cursor whose rowcount an empty executemany
\* had set to 0, and the rowcount is still 0.
C11_Witness ==
  /\ kind = "SyncWorkerCursor" /\ ~pyodide /\ ~cursor.closed /\ ~conn.closed
  /\ last.op = "execute" /\ last.out = "NotSupportedError" /\ last.calls = <<>>
  /\ cursor.rowcount = 0 /\ cursor.result_data = None /\ cursor.position = 0

\* The last call was an execute over REST that failed at the provider.
RestFailure(t) ==
  /\ kind \in RestKinds /\ last.op = "execute" /\ last.given # None
  /\ Get(last.given).t = t

\* The text is part of the message of the last call's exception.
MessageHas(text) == \E n \in 1..Len(last.msg) : last.msg[n] = text

\* C12: a REST envelope with success false makes Cursor.execute and
\* AsyncCursor.execute raise OperationalError whose message has the message of
\* the first entry of errors, or the generic failure text if errors is empty;
\* a request error or an error status makes them raise OperationalError whose
\* message has the text of that error.
C12_FailureMessage ==
  /\ RestFailure("json")
       => /\ last.out = "OperationalError"
          /\ IF Get(last.given).errors # <<>>
             THEN MessageHas(Get(last.given).errors[1])
             ELSE MessageHas("D1 API request failed")
  /\ RestFailure("request_error")
       => last.out = "OperationalError" /\ MessageHas("transport")
  /\ RestFailure("status_error")
       => last.out = "OperationalError" /\ MessageHas("status")

\* Cursor.execute has failed on an envelope that names an error.
C12_Witness ==
  /\ kind = "Cursor" /\ RestFailure("json")
  /\ Get(last.given).errors = <<"no such table">>
  /\ last.out = "OperationalError" /\ MessageHas("no such table")

\* C13: whatever escapes execute or executemany of Cursor, AsyncCursor,
\* WorkerCursor.execute_async, SyncWorkerCursor or AsyncAdapt_d1_cursor is a
\* ProgrammingError, OperationalError, NotSupportedError or InterfaceError of
\* the package: what the HTTP client, the parsing of the response or the
\* binding raised never comes out as it was.
C13_PackageErrorsOnly ==
  last.op \in {"execute", "executemany"}
  => last.out \in {"return", "ProgrammingError", "OperationalError",
                   "NotSupportedError", "InterfaceError"}

\* AsyncCursor.execute has met a body that is not JSON; the ValueError of
\* response.json() came out as OperationalError.
C13_Witness ==
  /\ kind = "AsyncCursor" /\ last.op = "execute"
  /\ last.given # None /\ Get(last.given).t = "not_json"
  /\ last.out = "OperationalError"

\* A call of op ends in this step.
Ends(op) == last' # last /\ last'.op = op

\* C14: once the connection is closed, cursor() raises InterfaceError, and
\* execute on a cursor made before the close raises InterfaceError or
\* ProgrammingError, not OperationalError, and calls nothing on the transport.
C14_ClosedConnection ==
  [][/\ (conn.closed /\ Ends("cursor")) => last'.out = "InterfaceError"
     /\ (conn.closed /\ ExecuteEnds)
          => /\ last'.out \in {"InterfaceError", "ProgrammingError"}
             /\ last'.calls = <<>>]_vars

\* The number of calls of f among the transport calls.
CountCalls(calls, f) == Cardinality({ n \in 1..Len(calls) : calls[n].f = f })

\* C15: one call of Cursor.execute or AsyncCursor.execute sends at most one
\* POST, and exactly one when the request fails or the envelope reports a
\* failure; executemany over k parameter sets sends at most k.
C15_NoRetry ==
  kind \in RestKinds
  => /\ last.op = "execute" => CountCalls(last.calls, "POST") <= 1
     /\ (last.op = "execute" /\ last.given # None) => CountCalls(last.calls, "POST") = 1
     /\ last.op = "executemany" => CountCalls(last.calls, "POST") <= Len(last.seq)

\* An executemany over two parameter sets met a failure at the second, after
\* two POSTs.
C15_Witness ==
  /\ kind = "Cursor" /\ last.op = "executemany" /\ Len(last.seq) = 2
  /\ last.given # None /\ last.out = "OperationalError"
  /\ CountCalls(last.calls, "POST") = 2

\* C16: on the native transports raw({columnNames: true}) is called only when
\* all() gave no row and no column and the trimmed, upper-cased statement
\* begins with SELECT; for every other statement, INSERT with or without
\* RETURNING among them, one execute prepares and runs the statement once.
C16_RawOnlyForEmptySelect ==
  (kind \notin RestKinds /\ last.op = "execute" /\ last.calls # <<>>)
  => /\ CountCalls(last.calls, "all") = 1
     /\ CountCalls(last.calls, "raw") > 0
          => /\ last.out = "return"
             /\ Get(provider).rows = <<>> /\ Get(provider).columns = <<>>
             /\ BeginsWithSelect[Get(provider).operation]
     /\ IF CountCalls(last.calls, "raw") > 0
        THEN CountCalls(last.calls, "raw") = 1 /\ CountCalls(last.calls, "prepare") = 2
        ELSE CountCalls(last.calls, "prepare") = 1
     /\ (last.out = "return" /\ ~BeginsWithSelect[Get(provider).operation])
          => CountCalls(last.calls, "prepare") = 1 /\ CountCalls(last.calls, "raw") = 0

\* INSERT ... RETURNING gave no row and was prepared and run once.
C16_Witness ==
  /\ kind = "WorkerCursor" /\ Returns("execute")
  /\ Get(provider).operation = SqlInsertReturning /\ Get(provider).rows = <<>>
  /\ CountCalls(last.calls, "prepare") = 1 /\ CountCalls(last.calls, "all") = 1
  /\ CountCalls(last.calls, "raw") = 0

\* What the binding gave: no row from all(), and a raw call that raises.
RawRaisedFor(given) ==
  /\ kind \notin RestKinds
  /\ given.rows = <<>> /\ given.raw.raises

\* C17: when the column-recovery raw call raises, execute returns all the same:
\* a native execute fails at the binding only if all() raised, and after the
\* execute whose raw call raised the cursor holds no row, its description is
\* the empty list and not None, and fetchall() returns [].
C17_RawFailureSwallowed ==
  /\ (kind \notin RestKinds /\ last.op = "execute" /\ last.given # None)
       => Get(last.given).all_raises
  /\ (provider # None /\ ~cursor.closed /\ RawRaisedFor(Get(provider))
      /\ BeginsWithSelect[Get(provider).operation])
       => /\ cursor.result_data = Some(<<>>)
          /\ cursor.description = Some(<<>>)
          /\ Returns("execute") => CountCalls(last.calls, "raw") = 1
          /\ last.op = "fetchall" => last.out = "return" /\ last.ret = <<>>

\* fetchall() has returned [] after such an execute.
C17_Witness ==
  /\ provider # None /\ ~cursor.closed /\ RawRaisedFor(Get(provider))
  /\ BeginsWithSelect[Get(provider).operation]
  /\ last.op = "fetchall" /\ last.out = "return" /\ last.ret = <<>>
  /\ cursor.description = Some(<<>>)

\* How often the HTTP client of a connection has been closed by now.
ClientClosures(c) == IF kind \in RestKinds /\ c.closed THEN 1 ELSE 0

\* C18: closed is false on a new connection of any of the four classes, true
\* after the first close() and never false again whatever is called; a
\* further close() returns and changes nothing, so the HTTP client is closed
\* once however often close() is called.
C18_ClosedOnce ==
  /\ ~conn.closed /\ conn.client_closed = 0
  /\ [][/\ conn.closed => conn'.closed
        /\ Ends("Connection.close") => last'.out = "return" /\ conn'.closed
        /\ conn.closed => conn' = conn
        /\ conn'.client_closed = ClientClosures(conn')]_vars

\* AsyncConnection.close has returned after an execute, the client closed once.
C18_Witness ==
  /\ kind = "AsyncCursor" /\ provider # None
  /\ Returns("Connection.close")
  /\ conn.closed /\ conn.client_closed = 1

Remaining(cur) ==
  IF cur.result_data = None THEN 0 ELSE Len(Get(cur.result_data)) - cur.position

\* C20: a call on one cursor (execute, executemany, a fetch, close) and close()
\* on the connection leave every field of the other cursor of the connection
\* as it was: the other cursor changes hands only when the client makes a
\* cursor or turns to the other one, and then with its fields unchanged.  The
\* rows a cursor has buffered are fetched as before once the connection is
\* closed.
C20_CursorsIndependent ==
  [][/\ peer' # peer
          => /\ last'.op \in {"cursor", "switch"}
             /\ Get(peer').cursor = cursor
             /\ last'.op = "switch" => cursor' = Get(peer).cursor
     /\ Ends("Connection.close") => cursor' = cursor /\ peer' = peer
     /\ (conn.closed /\ ~cursor.closed /\ Ends("fetchall"))
          => /\ last'.out = "return"
             /\ Len(last'.ret) = Remaining(cursor)
     /\ (conn.closed /\ ~cursor.closed /\ Ends("fetchone") /\ Remaining(cursor) > 0)
          => last'.out = "return" /\ last'.ret # None]_vars

\* fetchall() has handed out the rows of one cursor after the connection was
\* closed, the other cursor holding its own rows, one of them fetched.
C20_Witness ==
  /\ conn.closed /\ Returns("fetchall") /\ last.ret # <<>>
  /\ peer # None /\ ~Get(peer).cursor.closed
  /\ Get(peer).cursor.result_data # None /\ Get(peer).cursor.position = 1

\* The rows a cursor holds, none if it holds no buffer.
BufferLen(cur) == IF cur.result_data = None THEN 0 ELSE Len(Get(cur.result_data))

\* C25: in every state 0 <= position <= the number of buffered rows, a buffer
\* that is absent or was discarded counting as empty; a successful execute
\* puts position at 0, and any other call moves it forward by the number of
\* rows it hands out.
C25_PositionInBuffer ==
  /\ [](0 <= cursor.position /\ cursor.position <= BufferLen(cursor))
  /\ [][IF last'.op = "execute" /\ last'.out = "return"
        THEN cursor'.position = 0
        ELSE cursor'.position = cursor.position + (Len(fetched') - Len(fetched))]_vars

\* The statement of the last execution that was handed to the provider and
\* whose result the cursor took.
LastExecuted == Get(provider).operation

\* C26: in every state, open or closed, of a cursor that has executed a
\* statement, description is None exactly when the statement executed last was
\* classified as not row-returning.
C26_DescriptionInvariant ==
  provider # None => (cursor.description = None <=> ~RowReturning[LastExecuted])

\* The requests among calls that run a statement: the POST of the REST
\* transports, the all() of the binding.
Requests(calls) == SelectSeq(calls, LAMBDA c : c.f \in {"POST", "all"})

\* C28: executemany starts one execution per parameter set, in the order of the
\* sequence; at the first set that fails (at the provider, or for want of
\* run_sync before any request) it stops with that error, no later set is
\* sent, and rowcount is what the last execution that succeeded set (what it
\* was before the call if none did), not the running sum.
C28_ExecutemanyStopsAtFailure ==
  [][(last' # last /\ last'.op = "executemany" /\ last'.seq # <<>> /\ ~cursor.closed)
     => LET n == Len(last'.runs)
            sent == Requests(last'.calls)
        IN  /\ \A k \in 1..Len(sent) :
                 kind \in RestKinds => sent[k].a[2] = PrepareParameters(last'.seq[k])
            /\ IF last'.out = "return"
               THEN n = Len(last'.seq) /\ Len(sent) = n
               ELSE /\ last'.out = (IF pyodide THEN "OperationalError" ELSE "NotSupportedError")
                    /\ n < Len(last'.seq)
                    /\ Len(sent) = (IF pyodide THEN n + 1 ELSE 0)
                    /\ cursor'.rowcount = IF n = 0 THEN cursor.rowcount ELSE last'.runs[n]]_vars

C28_Witness ==
  /\ last.op = "executemany" /\ last.out = "OperationalError"
  /\ Len(last.runs) >= 1 /\ Len(last.runs) < Len(last.seq)
  /\ Len(Requests(last.calls)) = Len(last.runs) + 1
  /\ cursor.rowcount = last.runs[Len(last.runs)]
  /\ cursor.rowcount # SumNonNegative(last.runs)

\* The rows a cursor of any class still has to hand out.
Unfetched(cur) ==
  IF kind \in CursorKinds
  THEN IF cur.closed \/ cur.result_data = None THEN <<>>
       ELSE SubSeq(Get(cur.result_data), cur.position + 1, Len(Get(cur.result_data)))
  ELSE cur.rows

\* C27: an execute that fails at the transport or the provider leaves the
\* cursor's rows, position, description, rowcount and lastrowid as they were,
\* and the cursor open: the rows of the result before are handed out from the
\* same place.
C27_FailedExecuteKeepsState ==
  [][(last' # last /\ last'.op = "execute" /\ last'.out # "return" /\ last'.calls # <<>>)
     => /\ cursor' = cursor
        /\ Unfetched(cursor') = Unfetched(cursor)
        /\ fetched' = fetched
        /\ (kind \in CursorKinds => ~cursor'.closed)]_vars

C27_Witness ==
  /\ last.op = "execute" /\ last.out = "OperationalError" /\ last.calls # <<>>
  /\ kind = "AsyncAdapt_d1_cursor"
  /\ fetched # <<>>
  /\ Unfetched(cursor) # <<>>
  /\ cursor.description # None

\* The rows a cursor of any class still has to hand out, as the tuples a fetch
\* gives: the provider's positional rows from the position on, or the deque.
UnfetchedTuples(cur) ==
  IF kind \in CursorKinds
  THEN IF provider = None \/ cur.result_data = None THEN <<>>
       ELSE SubSeq(Get(provider).rows, cur.position + 1, Len(Get(provider).rows))
  ELSE cur.rows

\* C30: fetchmany(n) on an open cursor returns the first min(n, remaining) of
\* the rows left, in their order, and moves the position on by that number;
\* without a size it takes arraysize rows, and arraysize is 1 until it is set;
\* for n <= 0 it returns no row and the position stays.
C30_Fetchmany ==
  /\ (last.op = "" => cursor.arraysize = 1)
  /\ [][/\ (last'.op # "arraysize" => cursor'.arraysize = cursor.arraysize)
        /\ (last' # last /\ last'.op = "fetchmany" /\ (kind \in CursorKinds => ~cursor.closed))
           => LET n == IF last'.size = None THEN cursor.arraysize ELSE Get(last'.size)
                  left == UnfetchedTuples(cursor)
                  least == IF n < Len(left) THEN n ELSE Len(left)
                  count == IF least < 0 THEN 0 ELSE least
              IN  /\ last'.out = "return"
                  /\ last'.ret = SubSeq(left, 1, count)
                  /\ UnfetchedTuples(cursor') = SubSeq(left, count + 1, Len(left))
                  /\ (kind \in CursorKinds => cursor'.position = cursor.position + count)
                  /\ Len(fetched') = Len(fetched) + count]_vars

C30_Witness ==
  /\ last.op = "fetchmany" /\ last.out = "return" /\ last.size = None
  /\ cursor.arraysize = 2
  /\ Len(last.ret) = 2
  /\ Len(fetched) = 2

\* The rows a cursor of any class hands out from where it stands.
Fetchable(cur) == IF kind \in CursorKinds THEN FetchAll(cur).ret ELSE cur.rows

\* A cursor of the class in use on which the call i alone has been executed.
AfterAlone(i) ==
  ExecuteOf(kind, IF kind \in CursorKinds THEN InitCursorState ELSE AdaptInitState,
            conn, i, pyodide).cur

\* The calls the provider of the class in use answers.
FetchInputs ==
  IF kind \in {"WorkerCursor", "SyncWorkerCursor"} THEN HostFetch ELSE RestFetch

\* C29: after an executemany over one parameter set or more returns, on a
\* cursor of any class, description and the rows that can be fetched are those
\* the execution of the last parameter set gives by itself: no row of an
\* earlier execute or of an earlier parameter set is left.
C29_ExecutemanyLeavesLastResult ==
  (Returns("executemany") /\ last.seq # <<>>)
  => \E i \in FetchInputs :
       /\ i.parameters = last.seq[Len(last.seq)]
       /\ cursor.description = AfterAlone(i).description
       /\ Fetchable(cursor) = Fetchable(AfterAlone(i))

\* The rows among the pairs fetched.
RowsOf(pairs) == [k \in 1..Len(pairs) |-> pairs[k][2]]

\* C21: when execute of a row-returning statement returns on the adapted
\* cursor, the deque holds every row of the result and the inner cursor is
\* closed; fetchone, fetchmany, fetchall and iteration then take rows from the
\* deque only, with no call to the transport and nothing done to the inner
\* cursor or the connection, and the soft close leaves the deque as it is.
C21_EagerBuffer ==
  /\ [](kind = "AsyncAdapt_d1_cursor" /\ Returns("execute") /\ RowReturning[LastExecuted]
        => /\ cursor.rows = Get(provider).rows
           /\ peer # None /\ Get(peer).cursor.closed)
  /\ [][(kind = "AsyncAdapt_d1_cursor" /\ last' # last)
        => /\ (last'.op \in {"fetchone", "fetchmany", "fetchall", "next"}
                 => /\ last'.calls = <<>>
                    /\ UNCHANGED <<peer, conn, provider>>
                    /\ RowsOf(fetched') \o cursor'.rows = RowsOf(fetched) \o cursor.rows)
           /\ (last'.op = "_async_soft_close" => cursor'.rows = cursor.rows)]_vars

C21_Witness ==
  /\ kind = "AsyncAdapt_d1_cursor"
  /\ last.op = "_async_soft_close"
  /\ Len(cursor.rows) = MaxRows - 1
  /\ Len(fetched) = 1
  /\ RowsOf(fetched) \o cursor.rows = Get(provider).rows
  /\ peer # None /\ Get(peer).cursor.closed

PyTrue == PyBool(TRUE)
PyFalse == PyBool(FALSE)

\* C22: D1Boolean binds True as 1, False as 0 and None as None; the result
\* processor gives back True, False and None from what they were bound as, and
\* reads stored 1, 0, 'true', 'false' and NULL as True, False, True, False and
\* None; whatever it is given, it returns a bool or None.
C22_BooleanRoundTrip ==
  kind = "D1Boolean"
  => /\ (last.op = "bind_processor"
           => /\ (last.given = PyTrue => last.ret = PyInt(1))
              /\ (last.given = PyFalse => last.ret = PyInt(0))
              /\ (last.given = NoneValue => last.ret = NoneValue))
     /\ (last.op = "result_processor" /\ last.bound # None
           /\ last.given \in {PyTrue, PyFalse, NoneValue}
           => last.ret = last.given)
     /\ (last.op = "result_processor" /\ last.bound = None
           => /\ (last.given = PyInt(1) => last.ret = PyTrue)
              /\ (last.given = PyInt(0) => last.ret = PyFalse)
              /\ (last.given = PyStr(<<"t", "r", "u", "e">>) => last.ret = PyTrue)
              /\ (last.given = PyStr(<<"f", "a", "l", "s", "e">>) => last.ret = PyFalse)
              /\ (last.given = NoneValue => last.ret = NoneValue))
     /\ (last.op = "result_processor" => last.ret = NoneValue \/ last.ret[1] = "bool")

C22_Witness ==
  /\ kind = "D1Boolean"
  /\ last.op = "result_processor"
  /\ last.given = PyTrue
  /\ last.bound = Some(PyInt(1))
  /\ last.ret = PyTrue

\* C23: for every byte string b, the result processor of D1LargeBinary gives b
\* back from what the bind processor made of b, which is a str; None goes
\* through both processors as None.
C23_BinaryRoundTrip ==
  kind = "D1LargeBinary"
  => /\ (last.op = "bind_processor" /\ last.given[1] = "bytes" => last.ret[1] = "str")
     /\ (last.op = "result_processor" /\ last.bound # None /\ last.given[1] = "bytes"
           => last.ret = last.given)
     /\ (last.op # "" /\ last.given = NoneValue => last.ret = NoneValue)

C23_Witness ==
  /\ kind = "D1LargeBinary"
  /\ last.op = "result_processor"
  /\ last.given = PyBytes(<<0, 128, 255>>)
  /\ last.bound = Some(PyStr(<<"A", "I", "D", "/">>))
  /\ last.ret = last.given

\* The places of a word in a text.
Places(text, word) == { k \in 1..Len(text) : text[k] = word }

\* C24: the CREATE TABLE text of a table with a primary key has one PRIMARY KEY
\* clause: on the column if the key is one column, as one constraint of the
\* table, after the columns, if it is more; and no text has AUTOINCREMENT.
C24_OnePrimaryKeyClause ==
  (kind = "CloudflareD1DDLCompiler" /\ last.op = "visit_create_table")
  => LET table == last.given
         inline == { k \in Places(last.ret, "PRIMARY KEY") : last.ret[k + 1] # "(" }
         constraints == { k \in Places(last.ret, "PRIMARY KEY") : last.ret[k + 1] = "(" }
     IN  /\ Places(last.ret, "AUTOINCREMENT") = {}
         /\ (Cardinality(PrimaryKeyColumns(table)) = 1
               => Cardinality(inline) = 1 /\ constraints = {})
         /\ (Cardinality(PrimaryKeyColumns(table)) > 1
               => inline = {} /\ Cardinality(constraints) = 1)

\* C31: on AsyncAdapt_d1_cursor, the call that follows close() (an execute,
\* an executemany or a fetch operation) fails: it neither runs a statement
\* nor returns a value.
C31_AdaptedClosedIsOneWay ==
  [][(/\ kind = "AsyncAdapt_d1_cursor"
      /\ last.op = "close"
      /\ last'.op \in {"execute", "executemany", "fetchone", "fetchmany", "fetchall",
                       "next"})
     => (last'.out # "return" /\ last'.calls = <<>>)]_vars

\* An AsyncCursor of its own on which the statement and response that the
\* provider record p holds have been executed, standing after `taken` rows.
AsyncCursorAt(p, taken, arraysize) ==
  LET i == CHOOSE i \in RestFetch \cup RestIds : i.outcome.success /\ ProviderOf("AsyncCursor", i) = p
      executed == AsyncCursorExecute(InitCursorState, [closed |-> FALSE, client_closed |-> 0],
                                     i.operation, i.parameters, i.outcome).cur
  IN  [executed EXCEPT !.position = taken, !.arraysize = arraysize]

\* C32: for every statement and response, the adapted cursor after execute
\* has the description an AsyncCursor has after executing the same statement
\* on the same response, and each fetchone, fetchmany and fetchall on its
\* deque returns what the same call returns on that AsyncCursor standing
\* after the same number of rows.
C32_AdaptedYieldsAsAsyncCursor ==
  [][(kind = "AsyncAdapt_d1_cursor" /\ last'.out = "return")
     => /\ (last'.op = "execute" /\ provider' # None
              => LET ref == AsyncCursorAt(Get(provider'), 0, cursor'.arraysize)
                 IN  /\ cursor'.description = ref.description
                     /\ cursor'.rows = FetchAll(ref).ret)
        /\ (last'.op \in {"fetchone", "fetchmany", "fetchall"} /\ provider # None
              /\ fetched' # fetched
              => LET ref == AsyncCursorAt(Get(provider), Len(fetched), cursor.arraysize)
                 IN  last'.ret = (CASE last'.op = "fetchone" -> FetchOne(ref).ret
                                    [] last'.op = "fetchmany" -> FetchMany(ref, last'.size).ret
                                    [] OTHER -> FetchAll(ref).ret))]_vars

\* C33: after execute returns on the adapted cursor, its rowcount and its
\* lastrowid are those of the inner cursor that ran the statement, for a
\* row-returning statement as for any other.
C33_AdaptedCountsAreInner ==
  (kind = "AsyncAdapt_d1_cursor" /\ Returns("execute") /\ peer # None)
  => /\ cursor.rowcount = Get(peer).cursor.rowcount
     /\ cursor.lastrowid = LastRowId(Get(peer).cursor)

\* C34: with execute coroutines of one AsyncCursor interleaving at the await
\* of the transport, the buffered rows, description, rowcount, lastrowid and
\* the response meta of the cursor are at every moment those one single
\* response gives (the last one installed), and position is 0 right after a
\* response is installed.
C34_FieldsOfOneResponse ==
  /\ [](kind = "AsyncCursor" /\ cursor.result_data # None
        => /\ provider # None
           /\ LET ref == AsyncCursorAt(Get(provider), cursor.position, cursor.arraysize)
              IN  /\ cursor.result_data = ref.result_data
                  /\ cursor.description = ref.description
                  /\ cursor.rowcount = ref.rowcount
                  /\ cursor.last_result_meta = ref.last_result_meta
                  /\ LastRowId(cursor) = LastRowId(ref))
  /\ [][(kind = "AsyncCursor" /\ tasks' # tasks /\ last'.op = "execute" /\ last'.out = "return"
         /\ Len(tasks') < Len(tasks))
        => cursor'.position = 0]_vars

\* The response to one execute has been installed while another execute of
\* the same cursor, of another statement, is still suspended.
C34_Witness ==
  /\ kind = "AsyncCursor"
  /\ Returns("execute")
  /\ Len(tasks) = 1 /\ tasks[1][1] = "execute"
  /\ tasks[1][2].operation # Get(provider).operation
  /\ LastRowId(cursor) = Some(2)
  /\ cursor.position = 0
  /\ peer = None

\* C35: with close() coroutines of one AsyncConnection interleaving at the
\* await of the client's shutdown, the client's aclose() is called at most
\* once.
C35_AcloseAtMostOnce ==
  kind = "AsyncCursor" => conn.client_closed <= 1

\* C36: lastrowid is None as long as no execute has returned; after each
\* execute that returns it is the last_row_id of the meta of that execution's
\* response, and None when that meta has none, whatever an earlier response
\* reported.
C36_LastRowIdOfLastResponse ==
  kind \in CursorKinds
  => /\ (provider = None => LastRowId(cursor) = None)
     /\ (Returns("execute")
           => LastRowId(cursor) =
                (IF DictHas(Get(provider).meta, "last_row_id")
                 THEN Some(DictGetDefault(Get(provider).meta, "last_row_id", 0))
                 ELSE None))

\* An execute whose response reports the id 2 has returned.
C36_Witness ==
  /\ kind = "SyncWorkerCursor"
  /\ Returns("execute")
  /\ DictHas(Get(provider).meta, "last_row_id")
  /\ LastRowId(cursor) = Some(2)

\* The positional list the parameters argument stands for; nothing when no
\* parameters are given, an empty list or dict included.
PositionalList(parameters) ==
  CASE parameters.t = "none" -> None
    [] parameters.t = "list" -> IF parameters.v = <<>> THEN None ELSE Some(parameters.v)
    [] parameters.t = "dict" -> IF parameters.v = <<>> THEN None ELSE Some(ParamValues(parameters))
    [] OTHER -> Some(<<parameters.v[1]>>)

\* C37: the body of the REST request of execute(text, params) is the text
\* unchanged and the parameters as a positional list: the elements of a list
\* or tuple in order, the values of a dict in insertion order, a single value
\* as a list of one element; the params key is left out only when no
\* parameters are given.
C37_RequestBody ==
  (kind \in RestKinds /\ Returns("execute"))
  => last.calls = <<Call("POST", <<Get(provider).operation, PositionalList(last.parameters)>>)>>

\* C38: for every /raw response whose column list is as long as its rows, the
\* tuple fetchone returns for a row is that row, value for value in the
\* provider's order.
C38_PositionalRoundTrip ==
  (/\ kind \in RestKinds
   /\ Returns("fetchone") /\ last.ret # None
   /\ provider # None /\ fetched # <<>>
   /\ \A n \in 1..Len(Get(provider).rows) :
        Len(Get(provider).rows[n]) = Len(Get(provider).columns))
  => Get(last.ret) = Get(provider).rows[fetched[Len(fetched)][1]]

\* The id a response meta carries, or None.
MetaRowId(meta) ==
  IF DictHas(meta, "last_row_id") THEN Some(DictGetDefault(meta, "last_row_id", 0)) ELSE None

\* C39: when the native execute has made the column-recovery call, only the
\* column names of that call are used: the cursor holds no row even if the
\* statement run again returns rows, fetchall returns [], and rowcount and
\* lastrowid are those of the first call.
C39_RecoveryGivesNamesOnly ==
  (/\ kind \in {"WorkerCursor", "SyncWorkerCursor"}
   /\ Returns("execute")
   /\ \E n \in 1..Len(last.calls) : last.calls[n].f = "raw")
  => /\ cursor.result_data = Some(<<>>)
     /\ FetchAll(cursor).ret = <<>>
     /\ cursor.rowcount = DictGetDefault(Get(provider).meta, "changes", 0)
     /\ LastRowId(cursor) = MetaRowId(Get(provider).meta)
     /\ (~Get(provider).raw.raises /\ Get(provider).raw.rows # <<>>
           => Names(Get(cursor.description)) = Get(provider).raw.rows[1])

\* The column-recovery call returned a header and rows, after a first call
\* that reported an inserted row's id.
C39_Witness ==
  /\ kind = "WorkerCursor"
  /\ Returns("execute")
  /\ \E n \in 1..Len(last.calls) : last.calls[n].f = "raw"
  /\ Len(Get(provider).raw.rows) = MaxRows + 1
  /\ LastRowId(cursor) = Some(2)

====
